---- MODULE Spec2Model ----
(***************************************************************************)
(* Model of the agentic control core of frink-loop: the task ledger        *)
(* (state/todo-state.ts), the tools that read and write it                 *)
(* (tools/todo-tools.ts, tools/mark-complete.ts) and the external-process  *)
(* session (tools/claude-session.ts, tools/send-to-claude.ts,              *)
(* tools/reset-session.ts) as driven by main (index.ts).                   *)
(*                                                                         *)
(* Todo objects are JavaScript objects: the ledger array, and every array  *)
(* handed out by getTodos(), hold REFERENCES to them.  The model keeps an  *)
(* explicit heap so that sharing is visible.                               *)
(***************************************************************************)
EXTENDS Integers, Sequences, FiniteSets, TLC

\* ---------------------------------------------------------------------------
\* Bounds of the model
\* ---------------------------------------------------------------------------
\* longest ledger (and longest list given to todo_write / todo_add)
MaxTodos == 2
\* largest id the ledger may issue before add is no longer explored
MaxId == 3
\* longest log of session events (invocations and resets)
MaxTrace == 4
\* most completion requests explored in one run of the provider loop
MaxTurns == 3
\* most tool-use blocks the model emits in one run
MaxCalls == 3
\* custom tool declarations in a configuration
MaxCustom == 2
\* tokens in a command template
MaxTemplate == 2

\* ---------------------------------------------------------------------------
\* Input domains
\* ---------------------------------------------------------------------------
Statuses == {"pending", "in_progress", "completed", "failed"}

AddStatuses == {"pending", "in_progress"}

Tasks == {"a", "b"}

\* descriptions given to todo_write and todo_add
NewTasks == {"a"}

Dirs == {"d1", "d2"}

ExitCodes == {0, 1}

\* `code` is null when the process was ended by a signal
NullCode == -1

\* no "close" event
NotExited == -2

\* ---------------------------------------------------------------------------
\* State
\* ---------------------------------------------------------------------------
VARIABLES
  heap,          \* the Todo objects, by reference
  todos,         \* `todos`: the ledger array, a sequence of references
  nextTodoId,    \* `nextTodoId`
  issued,        \* history: ids handed out since the last bulk replace / reset
  held,          \* an array a caller got from getTodos() and still holds
  heldSeen,      \* history: what that array showed when it was obtained
  last,          \* the last finished call and what it returned
  mcPc,          \* where mark_task_complete's handler is waiting
  mcCtx,         \* its captured arguments and summary while it waits
  sessions,      \* the ClaudeSession objects, in order of construction
  activeSession, \* `activeSession`: the index of a session, NoSession for null
  lastSessionConfig, \* `lastSessionConfig` of reset-session.ts
  claudeSession, \* the session main captured at start-up
  uuidCount,     \* how many ids randomUUID() has produced
  trace,         \* history: invocations built by send(), and slot resets
  sendCtx,       \* the send() in flight, if any
  procs,         \* the child processes send() spawned, in order of spawning
  closeSeen,     \* history: the "close" that settled the latest send, if one did
  phase,         \* where main is: "start", "running" or "done"
  loopPc,        \* where the provider's run() is
  messages,      \* `messages`: the conversation sent with each request
  pendingToolCalls, \* `pendingToolCalls` of the turn being served
  callIdx,       \* the position of the for loop in pendingToolCalls
  toolResults,   \* `toolResults` of the turn being served
  outputText,    \* `outputText`: the text pieces received so far
  calling,       \* the tool call whose handler is awaited, if any
  nextCallId,    \* the number of the next tool-use block the model emits
  requests,      \* history: how many completion requests were made
  turns,         \* history: the turns the model answered with
  handlerLog,    \* history: starts and ends of tool handlers
  runResult,     \* what run() returned
  lastRenderedLineCount, \* `lastRenderedLineCount` of the todo renderer
  events,        \* history: the stream events main received from agent.run()
  envConfig,     \* the credentials in the environment and the loaded config
  exitStatus,    \* the code process.exit() was called with, if it was
  reported       \* what main told the user at the end of the run

ledgerVars == <<heap, todos, nextTodoId, issued, held, heldSeen, mcPc, mcCtx,
                lastRenderedLineCount>>

sessionVars == <<sessions, activeSession, lastSessionConfig, claudeSession,
                 uuidCount, trace, sendCtx, procs, closeSeen, phase>>

loopVars == <<loopPc, messages, pendingToolCalls, callIdx, toolResults,
              outputText, calling, nextCallId, requests, turns, handlerLog, runResult,
              events, envConfig, exitStatus, reported>>

vars == <<heap, todos, nextTodoId, issued, held, heldSeen, last, mcPc, mcCtx,
          sessions, activeSession, lastSessionConfig, claudeSession,
          uuidCount, trace, sendCtx, procs, closeSeen, phase,
          loopPc, messages, pendingToolCalls, callIdx, toolResults,
          outputText, calling, nextCallId, requests, turns, handlerLog, runResult,
          lastRenderedLineCount, events, envConfig, exitStatus, reported>>

\* ---------------------------------------------------------------------------
\* Helpers
\* ---------------------------------------------------------------------------
Range(s) == {s[i] : i \in 1..Len(s)}

MaxRef == 3 * MaxTodos

Refs == 1..MaxRef

\* a heap cell that holds no object
NoTodo == [id |-> 0, task |-> "", status |-> "none"]

\* the objects an array of references shows
View(h, ts) == [i \in 1..Len(ts) |-> h[ts[i]]]

\* a new object gets a cell no live array refers to
MinFree(avoid) == CHOOSE r \in Refs \ avoid : \A q \in Refs \ avoid : r <= q

Ledger == [heap |-> heap, todos |-> todos, nextTodoId |-> nextTodoId]

\* all lists of at most n elements of S
SeqsUpTo(S, n) == UNION {[1..k -> S] : k \in 0..n}

TodoInputs == [task : NewTasks, status : Statuses]

\* "" stands for a status the caller left out
AddInputs == [task : NewTasks, status : AddStatuses \cup {""}]

\* ---------------------------------------------------------------------------
\* todo-state.ts: read operations
\* ---------------------------------------------------------------------------
\* getTodos(): [...todos], a new array holding the same references
getTodos(L) == L.todos

CountStatus(v, s) == Len(SelectSeq(v, LAMBDA t : t.status = s))

\* a summary whose in-progress filter compares with a misspelt status
getTodoSummary_misspelt(L) ==
  LET v == View(L.heap, L.todos) IN
  [total      |-> Len(L.todos),
   pending    |-> CountStatus(v, "pending"),
   inProgress |-> CountStatus(v, "in-progress"),
   completed  |-> CountStatus(v, "completed"),
   failed     |-> CountStatus(v, "failed")]

getTodoSummary(L) ==
  LET v == View(L.heap, L.todos) IN
  [total      |-> Len(L.todos),
   pending    |-> CountStatus(v, "pending"),
   inProgress |-> CountStatus(v, "in_progress"),
   completed  |-> CountStatus(v, "completed"),
   failed     |-> CountStatus(v, "failed")]

\* todos.find(t => t.id === id): the first reference whose object has the id,
\* 0 for undefined
FindRef(L, id) ==
  LET hits == {i \in 1..Len(L.todos) : L.heap[L.todos[i]].id = id} IN
  IF hits = {} THEN 0
  ELSE L.todos[CHOOSE i \in hits : \A j \in hits : i <= j]

\* todos.findIndex(t => t.id === id), 0 for -1
FindIndex(L, id) ==
  LET hits == {i \in 1..Len(L.todos) : L.heap[L.todos[i]].id = id} IN
  IF hits = {} THEN 0 ELSE CHOOSE i \in hits : \A j \in hits : i <= j

\* ---------------------------------------------------------------------------
\* todo-state.ts: write operations, as functions of the ledger
\* ---------------------------------------------------------------------------
RECURSIVE AllocSeq(_, _)
\* n new cells, none of them in avoid
AllocSeq(n, avoid) ==
  IF n = 0 THEN <<>>
  ELSE LET r == MinFree(avoid) IN <<r>> \o AllocSeq(n - 1, avoid \cup {r})

setTodos(L, newTodos, avoid) ==
  LET refs == AllocSeq(Len(newTodos), avoid \cup Range(L.todos)) IN
  [heap       |-> [r \in Refs |->
                     IF r \in Range(refs)
                     THEN LET i == CHOOSE k \in 1..Len(refs) : refs[k] = r IN
                          [id |-> i, task |-> newTodos[i].task,
                           status |-> newTodos[i].status]
                     ELSE L.heap[r]],
   todos      |-> refs,
   nextTodoId |-> Len(refs) + 1]

\* an add that numbers the new task by the length of the list
addTodo_byLength(L, task, status, avoid) ==
  LET r == MinFree(avoid \cup Range(L.todos)) IN
  [heap       |-> [L.heap EXCEPT ![r] =
                     [id |-> Len(L.todos) + 1, task |-> task, status |-> status]],
   todos      |-> Append(L.todos, r),
   nextTodoId |-> L.nextTodoId + 1]

\* an add that puts the new task in front of the list
addTodo_front(L, task, status, avoid) ==
  LET r == MinFree(avoid \cup Range(L.todos)) IN
  [heap       |-> [L.heap EXCEPT ![r] =
                     [id |-> L.nextTodoId, task |-> task, status |-> status]],
   todos      |-> <<r>> \o L.todos,
   nextTodoId |-> L.nextTodoId + 1]

addTodo(L, task, status, avoid) ==
  LET r == MinFree(avoid \cup Range(L.todos)) IN
  [heap       |-> [L.heap EXCEPT ![r] =
                     [id |-> L.nextTodoId, task |-> task, status |-> status]],
   todos      |-> Append(L.todos, r),
   nextTodoId |-> L.nextTodoId + 1]

\* an update that falls back to the first task when the id is absent
updateTodoStatus_fallback(L, id, status) ==
  LET r == IF FindRef(L, id) # 0 \/ L.todos = <<>>
           THEN FindRef(L, id) ELSE L.todos[1] IN
  IF r # 0 THEN [L EXCEPT !.heap[r].status = status] ELSE L

updateTodoStatus(L, id, status) ==
  LET r == FindRef(L, id) IN
  IF r # 0 THEN [L EXCEPT !.heap[r].status = status] ELSE L

updateTodoTask(L, id, task) ==
  LET r == FindRef(L, id) IN
  IF r # 0 THEN [L EXCEPT !.heap[r].task = task] ELSE L

\* a remove that gives the id of a removed last task back to the counter
removeTodo_reclaim(L, id) ==
  LET index == FindIndex(L, id) IN
  IF index # 0
  THEN [L EXCEPT !.todos = SubSeq(L.todos, 1, index - 1)
                           \o SubSeq(L.todos, index + 1, Len(L.todos)),
                 !.nextTodoId = IF id = L.nextTodoId - 1 THEN id ELSE L.nextTodoId]
  ELSE L

\* a remove that drops the last task once the id is found
removeTodo_pop(L, id) ==
  LET index == FindIndex(L, id) IN
  IF index # 0
  THEN [L EXCEPT !.todos = SubSeq(L.todos, 1, Len(L.todos) - 1)]
  ELSE L

removeTodo(L, id) ==
  LET index == FindIndex(L, id) IN
  IF index # 0
  THEN [L EXCEPT !.todos = SubSeq(L.todos, 1, index - 1)
                           \o SubSeq(L.todos, index + 1, Len(L.todos))]
  ELSE L

resetTodoState(L) ==
  [heap |-> L.heap, todos |-> <<>>, nextTodoId |-> 1]

\* ui/todo-renderer.ts: the line count renderTodoList() leaves behind, the
\* header and one line for each todo
renderTodoList(ts) == Len(ts) + 1

resetTodoRenderer == 0

\* The ledger becomes L and the caller's array stays keep.  References are
\* opaque, so the heap is kept in a normal form: the ledger's objects come
\* first, in ledger order, then the objects only the caller's array still
\* refers to; objects nothing refers to are dropped.
Install(L, keep) ==
  LET order == L.todos \o SelectSeq(keep, LAMBDA r : r \notin Range(L.todos))
      pos(r) == CHOOSE i \in 1..Len(order) : order[i] = r IN
  /\ todos' = [i \in 1..Len(L.todos) |-> i]
  /\ nextTodoId' = L.nextTodoId
  /\ heap' = [r \in Refs |-> IF r <= Len(order) THEN L.heap[order[r]] ELSE NoTodo]
  /\ held' = [i \in 1..Len(keep) |-> pos(keep[i])]

\* ---------------------------------------------------------------------------
\* Construction
\* ---------------------------------------------------------------------------
NoSession == 0

NoConfig == [workingDirectory |-> "", yoloMode |-> FALSE, set |-> FALSE]

\* the latest send was not settled by a "close"
NoClose == [code |-> NotExited, errorOutput |-> ""]

\* no tool handler is awaited
NoCalling == [id |-> 0, name |-> "", input |-> [none |-> ""]]

\* run() has not returned
NoResult == [success |-> FALSE, output |-> <<>>, returned |-> FALSE]

NoSend == [session |-> 0, before |-> 0]

NoCtx == [success |-> FALSE, total |-> 0, completed |-> 0]

NoCall == [op |-> "none"]

\* loadEnvironment() and loadConfig() have not run
NoEnv == [keys |-> {}, provider |-> "", maxIterations |-> 0, loaded |-> FALSE]

\* main has shown no result and logged no error
NoReport == [shown |-> FALSE, success |-> FALSE, errors |-> 0, calls |-> 0]

Init ==
  /\ heap = [r \in Refs |-> NoTodo]
  /\ todos = <<>>
  /\ nextTodoId = 1
  /\ issued = <<>>
  /\ held = <<>>
  /\ heldSeen = <<>>
  /\ last = NoCall
  /\ mcPc = "idle"
  /\ mcCtx = NoCtx
  /\ sessions = <<>>
  /\ activeSession = NoSession
  /\ lastSessionConfig = NoConfig
  /\ claudeSession = NoSession
  /\ uuidCount = 0
  /\ trace = <<>>
  /\ sendCtx = NoSend
  /\ procs = <<>>
  /\ closeSeen = NoClose
  /\ phase = "start"
  /\ loopPc = "idle"
  /\ messages = <<>>
  /\ pendingToolCalls = <<>>
  /\ callIdx = 0
  /\ toolResults = <<>>
  /\ outputText = <<>>
  /\ calling = NoCalling
  /\ nextCallId = 1
  /\ requests = 0
  /\ turns = <<>>
  /\ handlerLog = <<>>
  /\ runResult = NoResult
  /\ lastRenderedLineCount = 0
  /\ events = <<>>
  /\ envConfig = NoEnv
  /\ exitStatus = NotExited
  /\ reported = NoReport

\* ---------------------------------------------------------------------------
\* todo-tools.ts: the ledger tools.  A tool handler runs only when no other
\* handler is waiting (the provider awaits each handler before the next).
\* ---------------------------------------------------------------------------
IdsOf(L) == [i \in 1..Len(L.todos) |-> L.heap[L.todos[i]].id]

TodoWrite(newTodos) ==
  /\ mcPc = "idle"
  /\ LET L2 == setTodos(Ledger, newTodos, Range(held)) IN
     /\ Install(L2, held)
     /\ lastRenderedLineCount' = renderTodoList(getTodos(L2))
     /\ issued' = IdsOf(L2)
     /\ last' = [op |-> "todo_write", input |-> newTodos, success |-> TRUE,
                 summary |-> getTodoSummary(L2),
                 todos |-> View(L2.heap, getTodos(L2))]
  /\ UNCHANGED <<heldSeen, mcPc, mcCtx>>
  /\ UNCHANGED sessionVars
  /\ UNCHANGED loopVars

TodoRead ==
  /\ mcPc = "idle"
  /\ last' = [op |-> "todo_read",
              todos |-> View(heap, getTodos(Ledger)),
              summary |-> getTodoSummary(Ledger)]
  /\ UNCHANGED <<heap, todos, nextTodoId, issued, held, heldSeen, mcPc, mcCtx,
                 lastRenderedLineCount>>
  /\ UNCHANGED sessionVars
  /\ UNCHANGED loopVars

\* (t.status || "pending"), and the schema's default for an omitted status
StatusOrPending(s) == IF s = "" THEN "pending" ELSE s

RECURSIVE AddAll(_, _, _)
\* tasks.map(t => addTodo(t.task, t.status || "pending"))
AddAll(L, tasks, avoid) ==
  IF tasks = <<>> THEN L
  ELSE AddAll(addTodo(L, Head(tasks).task, StatusOrPending(Head(tasks).status), avoid),
              Tail(tasks), avoid)

TodoAdd(tasks) ==
  /\ mcPc = "idle"
  /\ Len(todos) + Len(tasks) <= MaxTodos
  /\ nextTodoId + Len(tasks) - 1 <= MaxId
  /\ LET L2 == AddAll(Ledger, tasks, Range(held))
         addedRefs == SubSeq(L2.todos, Len(todos) + 1, Len(L2.todos)) IN
     /\ Install(L2, held)
     /\ lastRenderedLineCount' = renderTodoList(getTodos(L2))
     /\ issued' = issued \o [i \in 1..Len(addedRefs) |-> L2.heap[addedRefs[i]].id]
     /\ last' = [op |-> "todo_add", input |-> tasks, success |-> TRUE,
                 added |-> View(L2.heap, addedRefs),
                 summary |-> getTodoSummary(L2),
                 todos |-> View(L2.heap, getTodos(L2))]
  /\ UNCHANGED <<heldSeen, mcPc, mcCtx>>
  /\ UNCHANGED sessionVars
  /\ UNCHANGED loopVars

NotFound(id) == [kind |-> "not_found", id |-> id]

TodoUpdate(id, status) ==
  /\ mcPc = "idle"
  /\ LET updated == FindRef(Ledger, id)
         L2 == updateTodoStatus(Ledger, id, status) IN
     /\ Install(L2, held)
     /\ lastRenderedLineCount' = IF updated = 0 THEN lastRenderedLineCount
                                 ELSE renderTodoList(getTodos(L2))
     /\ last' = IF updated = 0
                THEN [op |-> "todo_update", id |-> id, success |-> FALSE,
                      error |-> NotFound(id)]
                ELSE [op |-> "todo_update", id |-> id, success |-> TRUE,
                      updated |-> L2.heap[updated],
                      summary |-> getTodoSummary(L2)]
  /\ UNCHANGED <<issued, heldSeen, mcPc, mcCtx>>
  /\ UNCHANGED sessionVars
  /\ UNCHANGED loopVars

\* updateTodoTask has no tool; it is part of the ledger's interface
UpdateTodoTask(id, task) ==
  /\ mcPc = "idle"
  /\ LET updated == FindRef(Ledger, id)
         L2 == updateTodoTask(Ledger, id, task) IN
     /\ Install(L2, held)
     /\ last' = [op |-> "updateTodoTask", id |-> id, found |-> (updated # 0)]
  /\ UNCHANGED <<issued, heldSeen, mcPc, mcCtx, lastRenderedLineCount>>
  /\ UNCHANGED sessionVars
  /\ UNCHANGED loopVars

TodoRemove(id) ==
  /\ mcPc = "idle"
  /\ LET removed == (FindIndex(Ledger, id) # 0)
         L2 == removeTodo(Ledger, id) IN
     /\ Install(L2, held)
     /\ lastRenderedLineCount' = IF ~removed THEN lastRenderedLineCount
                                 ELSE renderTodoList(getTodos(L2))
     /\ last' = IF ~removed
                THEN [op |-> "todo_remove", id |-> id, success |-> FALSE,
                      error |-> NotFound(id)]
                ELSE [op |-> "todo_remove", id |-> id, success |-> TRUE,
                      removedId |-> id,
                      summary |-> getTodoSummary(L2),
                      todos |-> View(L2.heap, getTodos(L2))]
  /\ UNCHANGED <<issued, heldSeen, mcPc, mcCtx>>
  /\ UNCHANGED sessionVars
  /\ UNCHANGED loopVars

\* resetTools() / resetAllState(): the ledger part
ResetTodoState ==
  /\ mcPc = "idle"
  /\ Install(resetTodoState(Ledger), held)
  /\ issued' = <<>>
  /\ last' = [op |-> "resetTodoState"]
  /\ UNCHANGED <<heldSeen, mcPc, mcCtx, lastRenderedLineCount>>
  /\ UNCHANGED sessionVars
  /\ UNCHANGED loopVars

\* a caller of getTodos() keeps the array it got
GetTodos ==
  /\ mcPc = "idle"
  /\ Install(Ledger, getTodos(Ledger))
  /\ heldSeen' = View(heap, getTodos(Ledger))
  /\ last' = [op |-> "getTodos"]
  /\ UNCHANGED <<issued, mcPc, mcCtx, lastRenderedLineCount>>
  /\ UNCHANGED sessionVars
  /\ UNCHANGED loopVars

\* ---------------------------------------------------------------------------
\* mark-complete.ts: mark_task_complete.  The handler waits twice: for
\* confirm() ("confirm") and, after a decline, for input() ("input").
\* ---------------------------------------------------------------------------
\* a gate that looks for pending tasks only
IncompleteTasks_pendingOnly(v) == SelectSeq(v, LAMBDA t : t.status = "pending")

\* todos.filter(t => t.status !== "completed")
IncompleteTasks(v) == SelectSeq(v, LAMBDA t : t.status # "completed")

\* the gate: what execute does before it prompts
MarkTaskComplete(success) ==
  /\ mcPc = "idle"
  /\ LET todoSummary == getTodoSummary(Ledger)
         incompleteTasks == IncompleteTasks(View(heap, getTodos(Ledger))) IN
     IF Len(incompleteTasks) > 0
     THEN /\ last' = [op |-> "mark_task_complete", returned |-> TRUE,
                      outcome |-> "refused",
                      complete |-> FALSE, success |-> FALSE,
                      error |-> "unfinished",
                      remainingTasks |-> incompleteTasks,
                      todoSummary |-> [total |-> todoSummary.total,
                                       completed |-> todoSummary.completed,
                                       remaining |-> Len(incompleteTasks)],
                      asked |-> FALSE, accepted |-> FALSE]
          /\ UNCHANGED <<mcPc, mcCtx>>
     ELSE /\ mcPc' = "confirm"
          /\ mcCtx' = [success |-> success, total |-> todoSummary.total,
                       completed |-> todoSummary.completed]
          /\ UNCHANGED last
  /\ UNCHANGED <<heap, todos, nextTodoId, issued, held, heldSeen,
                 lastRenderedLineCount>>
  /\ UNCHANGED sessionVars
  /\ UNCHANGED loopVars

\* confirm() resolves with the user's answer
ConfirmAnswer(userConfirmed) ==
  /\ mcPc = "confirm"
  /\ IF userConfirmed
     THEN /\ last' = [op |-> "mark_task_complete", returned |-> TRUE,
                      outcome |-> "confirmed",
                      complete |-> TRUE, success |-> mcCtx.success,
                      userConfirmed |-> TRUE,
                      todoSummary |-> [total |-> mcCtx.total,
                                       completed |-> mcCtx.completed],
                      asked |-> TRUE, accepted |-> TRUE]
          /\ mcPc' = "idle"
          /\ mcCtx' = NoCtx
     ELSE /\ mcPc' = "input"
          /\ UNCHANGED <<last, mcCtx>>
  /\ UNCHANGED <<heap, todos, nextTodoId, issued, held, heldSeen,
                 lastRenderedLineCount>>
  /\ UNCHANGED sessionVars
  /\ UNCHANGED loopVars

\* input() resolves with the user's feedback ("" when the user typed nothing)
InputAnswer(feedback) ==
  /\ mcPc = "input"
  /\ last' = [op |-> "mark_task_complete", returned |-> TRUE,
              outcome |-> "declined",
              complete |-> FALSE, success |-> FALSE,
              error |-> "more_work",
              userFeedback |-> IF feedback = "" THEN "unspecified" ELSE feedback,
              todoSummary |-> [total |-> mcCtx.total,
                               completed |-> mcCtx.completed],
              asked |-> TRUE, accepted |-> FALSE]
  /\ mcPc' = "idle"
  /\ mcCtx' = NoCtx
  /\ UNCHANGED <<heap, todos, nextTodoId, issued, held, heldSeen,
                 lastRenderedLineCount>>
  /\ UNCHANGED sessionVars
  /\ UNCHANGED loopVars

\* what the catch block returns for an ExitPromptError
InterruptedResult ==
  [op |-> "mark_task_complete", returned |-> TRUE,
   outcome |-> "interrupted",
   complete |-> TRUE, success |-> FALSE,
   summary |-> "Interrupted by user", userConfirmed |-> FALSE,
   asked |-> TRUE, accepted |-> FALSE]

\* Ctrl+C at either prompt: the prompt rejects with ExitPromptError
PromptInterrupted ==
  /\ mcPc \in {"confirm", "input"}
  /\ last' = InterruptedResult
  /\ mcPc' = "idle"
  /\ mcCtx' = NoCtx
  /\ UNCHANGED <<heap, todos, nextTodoId, issued, held, heldSeen,
                 lastRenderedLineCount>>
  /\ UNCHANGED sessionVars
  /\ UNCHANGED loopVars

\* any other rejection of a prompt is rethrown: the call returns nothing
PromptThrows ==
  /\ mcPc \in {"confirm", "input"}
  /\ last' = [op |-> "mark_task_complete", returned |-> FALSE,
              outcome |-> "thrown", asked |-> TRUE, accepted |-> FALSE]
  /\ mcPc' = "idle"
  /\ mcCtx' = NoCtx
  /\ UNCHANGED <<heap, todos, nextTodoId, issued, held, heldSeen,
                 lastRenderedLineCount>>
  /\ UNCHANGED sessionVars
  /\ UNCHANGED loopVars

\* ---------------------------------------------------------------------------
\* The ledger and its tools
\* ---------------------------------------------------------------------------
LedgerNext ==
  \/ \E newTodos \in SeqsUpTo(TodoInputs, MaxTodos) : TodoWrite(newTodos)
  \/ TodoRead
  \/ \E tasks \in SeqsUpTo(AddInputs, MaxTodos) : TodoAdd(tasks)
  \/ \E id \in 1..MaxId, status \in Statuses : TodoUpdate(id, status)
  \/ \E id \in 1..MaxId, task \in Tasks : UpdateTodoTask(id, task)
  \/ \E id \in 1..MaxId : TodoRemove(id)
  \/ ResetTodoState
  \/ \E success \in BOOLEAN : MarkTaskComplete(success)
  \/ \E userConfirmed \in BOOLEAN : ConfirmAnswer(userConfirmed)
  \/ \E feedback \in {"", "f"} : InputAnswer(feedback)
  \/ PromptInterrupted
  \/ PromptThrows

SpecLedger == Init /\ [][LedgerNext]_vars

\* ---------------------------------------------------------------------------
\* claude-session.ts: ClaudeSession and the session slot
\* ---------------------------------------------------------------------------
\* new ClaudeSession(config): the id comes from randomUUID(), which does not
\* repeat; uuid is the number of the id it returns
ClaudeSession(config, uuid) ==
  [sessionId        |-> uuid,
   workingDirectory |-> config.workingDirectory,
   yoloMode         |-> config.yoloMode,
   isFirstCall      |-> TRUE,
   callCount        |-> 0]

SessionModule ==
  [sessions |-> sessions, activeSession |-> activeSession, uuidCount |-> uuidCount]

getSession(M) == M.activeSession

\* a getOrCreate that builds a session on every call
getOrCreateSession_always(M, config) ==
  [sessions      |-> Append(M.sessions, ClaudeSession(config, M.uuidCount + 1)),
   activeSession |-> Len(M.sessions) + 1,
   uuidCount     |-> M.uuidCount + 1]

getOrCreateSession(M, config) ==
  IF M.activeSession = NoSession
  THEN [sessions      |-> Append(M.sessions, ClaudeSession(config, M.uuidCount + 1)),
        activeSession |-> Len(M.sessions) + 1,
        uuidCount     |-> M.uuidCount + 1]
  ELSE M

\* a reset that leaves the slot as it is
resetSession_keep(M) == M

resetSession(M) == [M EXCEPT !.activeSession = NoSession]

InstallSessions(M) ==
  /\ sessions' = M.sessions
  /\ activeSession' = M.activeSession
  /\ uuidCount' = M.uuidCount

\* the invocation send() builds: the unattended flag, then --session-id on
\* the first call and --resume on every later one, run in the session's
\* working directory
Invocation(sess) ==
  [kind            |-> IF sess.isFirstCall THEN "create" ELSE "resume",
   flag            |-> IF sess.isFirstCall THEN "--session-id" ELSE "--resume",
   token           |-> sess.sessionId,
   skipPermissions |-> sess.yoloMode,
   cwd             |-> sess.workingDirectory]

\* a send that counts resumed calls only
SendStarted_resumesOnly(sess) ==
  [sess EXCEPT !.callCount = IF sess.isFirstCall THEN @ ELSE @ + 1,
               !.isFirstCall = FALSE]

\* the session after the synchronous part of send()
SendStarted(sess) ==
  [sess EXCEPT !.callCount = @ + 1, !.isFirstCall = FALSE]

\* ---------------------------------------------------------------------------
\* index.ts: main sets the session up and, at the end of the run, resets
\* ---------------------------------------------------------------------------
MainInit(workingDir) ==
  /\ phase = "start"
  /\ LET sessionConfig == [workingDirectory |-> workingDir, yoloMode |-> TRUE,
                           set |-> TRUE]
         M2 == getOrCreateSession(SessionModule, sessionConfig) IN
     /\ lastSessionConfig' = sessionConfig
     /\ InstallSessions(M2)
     /\ claudeSession' = M2.activeSession
  /\ phase' = "running"
  /\ UNCHANGED <<trace, sendCtx, procs, closeSeen, last>>
  /\ UNCHANGED ledgerVars
  /\ UNCHANGED loopVars

ResetAllState ==
  /\ phase = "running"
  /\ sendCtx = NoSend
  /\ mcPc = "idle"
  /\ Len(trace) < MaxTrace
  /\ InstallSessions(resetSession(SessionModule))
  /\ Install(resetTodoState(Ledger), held)
  /\ issued' = <<>>
  /\ trace' = Append(trace, [kind |-> "reset"])
  /\ lastRenderedLineCount' = resetTodoRenderer
  /\ last' = [op |-> "resetAllState"]
  /\ phase' = "done"
  /\ UNCHANGED <<lastSessionConfig, claudeSession, sendCtx, procs, closeSeen,
                 heldSeen, mcPc, mcCtx>>
  /\ UNCHANGED loopVars

\* ---------------------------------------------------------------------------
\* send-to-claude.ts and ClaudeSession.send
\* ---------------------------------------------------------------------------
\* spawn(): a running child process, and the timer send() arms for it
Spawned == [status |-> "running", signal |-> "none", timer |-> "armed"]


NoSessionResult == [op |-> "send_to_claude", success |-> FALSE, error |-> "no_session"]

\* a tool that builds a session when the slot is empty and then sends
SendToClaude_autoCreate ==
  /\ phase = "running"
  /\ sendCtx = NoSend
  /\ mcPc = "idle"
  /\ Len(trace) < MaxTrace
  /\ LET M2 == getOrCreateSession(SessionModule,
                 [workingDirectory |-> "d1", yoloMode |-> TRUE, set |-> TRUE])
         session == M2.activeSession IN
     /\ sessions' = [M2.sessions EXCEPT ![session] = SendStarted(@)]
     /\ activeSession' = session
     /\ uuidCount' = M2.uuidCount
     /\ trace' = Append(trace, Invocation(M2.sessions[session]))
     /\ sendCtx' = [session |-> session, before |-> M2.sessions[session].callCount]
     /\ procs' = Append(procs, Spawned)
     /\ closeSeen' = NoClose
     /\ UNCHANGED last
  /\ UNCHANGED <<lastSessionConfig, claudeSession, phase>>
  /\ UNCHANGED ledgerVars
  /\ UNCHANGED loopVars

\* the tool is called: without a session it fails at once, otherwise send()
\* counts the call, builds the invocation and spawns the process
SendToClaude ==
  /\ phase = "running"
  /\ sendCtx = NoSend
  /\ mcPc = "idle"
  /\ Len(trace) < MaxTrace
  /\ LET session == getSession(SessionModule) IN
     IF session = NoSession
     THEN /\ last' = NoSessionResult
          /\ UNCHANGED <<sessions, trace, sendCtx, procs, closeSeen>>
     ELSE /\ sessions' = [sessions EXCEPT ![session] = SendStarted(@)]
          /\ trace' = Append(trace, Invocation(sessions[session]))
          /\ sendCtx' = [session |-> session, before |-> sessions[session].callCount]
          /\ procs' = Append(procs, Spawned)
          /\ closeSeen' = NoClose
          /\ UNCHANGED last
  /\ UNCHANGED <<activeSession, lastSessionConfig, claudeSession, uuidCount, phase>>
  /\ UNCHANGED ledgerVars
  /\ UNCHANGED loopVars

\* what the tool returns once send() has resolved
SendResult(output, exitCode, success) ==
  [op |-> "send_to_claude", success |-> success, output |-> output,
   exitCode |-> exitCode, callNumber |-> sessions[sendCtx.session].callCount]

\* resolve(result) of the promise send() returned, while it is pending
Resolve(result) ==
  /\ last' = result
  /\ sendCtx' = NoSend
  /\ UNCHANGED <<sessions, activeSession, lastSessionConfig, claudeSession,
                 uuidCount, trace, phase>>
  /\ UNCHANGED ledgerVars
  /\ UNCHANGED loopVars

\* the process of the send in flight: sends do not overlap, so it is the one
\* spawned last
CurrentProc == Len(procs)

\* a clearTimeout that leaves the timer as it is
clearTimeout_noop(timer) == timer

\* clearTimeout(timeout): a timer that has fired stays fired
clearTimeout(timer) == IF timer = "armed" THEN "cleared" ELSE timer

\* what the "close" handler of send() resolves with: output, plus the error
\* stream when there is one and the exit code is not 0
sendClose(code, out, err) ==
  LET exitCode == IF code = NullCode THEN 0 ELSE code IN
  [output   |-> <<out>> \o (IF err # "" /\ exitCode # 0
                            THEN <<"[STDERR]", err>> ELSE <<>>),
   exitCode |-> exitCode,
   success  |-> (exitCode = 0)]

\* what the "error" handler of send() resolves with
sendError ==
  [output |-> <<"[ERROR]", "message">>, exitCode |-> 1, success |-> FALSE]

\* "close" of the process of the send in flight
ProcClose(code, out, err) ==
  /\ sendCtx # NoSend
  /\ procs' = [procs EXCEPT ![CurrentProc] =
                 [@ EXCEPT !.status = "closed", !.timer = clearTimeout(@)]]
  /\ closeSeen' = [code |-> code, errorOutput |-> err]
  /\ LET r == sendClose(code, out, err) IN
     Resolve(SendResult(r.output, r.exitCode, r.success))

\* a timer callback that ends the process and leaves the result to "close"
ProcTimeout_waitsForClose(out) ==
  /\ sendCtx # NoSend
  /\ procs[CurrentProc].timer = "armed"
  /\ procs' = [procs EXCEPT ![CurrentProc] =
                 [@ EXCEPT !.signal = "SIGTERM", !.timer = "fired"]]
  /\ UNCHANGED closeSeen
  /\ UNCHANGED <<sessions, activeSession, lastSessionConfig, claudeSession,
                 uuidCount, trace, phase, sendCtx, last>>
  /\ UNCHANGED ledgerVars
  /\ UNCHANGED loopVars

\* the timer fires first: the process is sent SIGTERM and the promise is
\* resolved at once, whatever the process does next
ProcTimeout(out) ==
  /\ sendCtx # NoSend
  /\ procs[CurrentProc].timer = "armed"
  /\ procs' = [procs EXCEPT ![CurrentProc] =
                 [@ EXCEPT !.signal = "SIGTERM", !.timer = "fired"]]
  /\ UNCHANGED closeSeen
  /\ Resolve(SendResult(<<out, "[TIMEOUT]">>, 124, FALSE))

\* an "error" handler that reports the failed call as a success
ProcError_asSuccess ==
  /\ sendCtx # NoSend
  /\ procs' = [procs EXCEPT ![CurrentProc] =
                 [@ EXCEPT !.status = "failed", !.timer = clearTimeout(@)]]
  /\ UNCHANGED closeSeen
  /\ Resolve(SendResult(<<"[ERROR]", "message">>, 0, TRUE))

\* "error": the process could not be spawned or failed
ProcError ==
  /\ sendCtx # NoSend
  /\ procs' = [procs EXCEPT ![CurrentProc] =
                 [@ EXCEPT !.status = "failed", !.timer = clearTimeout(@)]]
  /\ UNCHANGED closeSeen
  /\ Resolve(SendResult(sendError.output, sendError.exitCode, sendError.success))

\* the promise of process p is settled (its send is no longer in flight)
Settled(p) == sendCtx = NoSend \/ p # CurrentProc

\* "close" of a process whose promise is already settled (after a timeout or
\* an "error"): the handler runs again, and its resolve() changes nothing
LateClose ==
  \E p \in 1..Len(procs) :
  /\ Settled(p)
  /\ procs[p].status # "closed"
  /\ procs' = [procs EXCEPT ![p] =
                 [@ EXCEPT !.status = "closed", !.timer = clearTimeout(@)]]
  /\ UNCHANGED closeSeen
  /\ UNCHANGED <<sessions, activeSession, lastSessionConfig, claudeSession,
                 uuidCount, trace, sendCtx, phase, last>>
  /\ UNCHANGED ledgerVars
  /\ UNCHANGED loopVars

\* "error" of a process whose promise is already settled by the timeout
LateError ==
  \E p \in 1..Len(procs) :
  /\ Settled(p)
  /\ procs[p].status = "running"
  /\ procs' = [procs EXCEPT ![p] =
                 [@ EXCEPT !.status = "failed", !.timer = clearTimeout(@)]]
  /\ UNCHANGED closeSeen
  /\ UNCHANGED <<sessions, activeSession, lastSessionConfig, claudeSession,
                 uuidCount, trace, sendCtx, phase, last>>
  /\ UNCHANGED ledgerVars
  /\ UNCHANGED loopVars

\* ---------------------------------------------------------------------------
\* reset-session.ts: reset_claude_session
\* ---------------------------------------------------------------------------
\* a reset that looks at the slot only after it has emptied it
ResetClaudeSessionTool_lateCapture ==
  /\ phase = "running"
  /\ sendCtx = NoSend
  /\ mcPc = "idle"
  /\ Len(trace) < MaxTrace
  /\ LET previousSession == getSession(resetSession(SessionModule))
         previousCallCount == IF previousSession = NoSession THEN 0
                              ELSE sessions[previousSession].callCount
         previousSessionId == IF previousSession = NoSession THEN 0
                              ELSE sessions[previousSession].sessionId
         M1 == resetSession(SessionModule)
         M2 == IF lastSessionConfig.set
               THEN getOrCreateSession(M1, lastSessionConfig) ELSE M1 IN
     /\ InstallSessions(M2)
     /\ last' = [op |-> "reset_claude_session", success |-> TRUE,
                 previousSessionId |-> previousSessionId,
                 previousCallCount |-> previousCallCount,
                 newSessionId |-> IF lastSessionConfig.set
                                  THEN M2.sessions[M2.activeSession].sessionId
                                  ELSE 0]
  /\ trace' = Append(trace, [kind |-> "reset"])
  /\ UNCHANGED <<lastSessionConfig, claudeSession, sendCtx, procs, closeSeen,
                 phase>>
  /\ UNCHANGED ledgerVars
  /\ UNCHANGED loopVars

ResetClaudeSessionTool ==
  /\ phase = "running"
  /\ sendCtx = NoSend
  /\ mcPc = "idle"
  /\ Len(trace) < MaxTrace
  /\ LET previousSession == getSession(SessionModule)
         previousCallCount == IF previousSession = NoSession THEN 0
                              ELSE sessions[previousSession].callCount
         previousSessionId == IF previousSession = NoSession THEN 0
                              ELSE sessions[previousSession].sessionId
         M1 == resetSession(SessionModule)
         M2 == IF lastSessionConfig.set
               THEN getOrCreateSession(M1, lastSessionConfig) ELSE M1 IN
     /\ InstallSessions(M2)
     /\ last' = [op |-> "reset_claude_session", success |-> TRUE,
                 previousSessionId |-> previousSessionId,
                 previousCallCount |-> previousCallCount,
                 newSessionId |-> IF lastSessionConfig.set
                                  THEN M2.sessions[M2.activeSession].sessionId
                                  ELSE 0]
  /\ trace' = Append(trace, [kind |-> "reset"])
  /\ UNCHANGED <<lastSessionConfig, claudeSession, sendCtx, procs, closeSeen,
                 phase>>
  /\ UNCHANGED ledgerVars
  /\ UNCHANGED loopVars

SessionNext ==
  \/ \E workingDir \in Dirs : MainInit(workingDir)
  \/ SendToClaude
  \/ \E code \in ExitCodes \cup {NullCode}, out \in {"", "o"}, err \in {"", "e"} :
       ProcClose(code, out, err)
  \/ \E out \in {"", "o"} : ProcTimeout(out)
  \/ ProcError
  \/ LateClose
  \/ LateError
  \/ ResetClaudeSessionTool
  \/ ResetAllState

SpecSession == Init /\ [][SessionNext]_vars

\* ---------------------------------------------------------------------------
\* The session modules used without main: a program that runs the agent
\* itself and calls the exported functions
\* ---------------------------------------------------------------------------
Configs ==
  {[workingDirectory |-> "d1", yoloMode |-> TRUE, set |-> TRUE],
   [workingDirectory |-> "d2", yoloMode |-> FALSE, set |-> TRUE]}

\* FrinkAgent.run() is called with no session set up
AgentRun ==
  /\ phase = "start"
  /\ phase' = "running"
  /\ UNCHANGED <<sessions, activeSession, lastSessionConfig, claudeSession,
                 uuidCount, trace, sendCtx, procs, closeSeen, last>>
  /\ UNCHANGED ledgerVars
  /\ UNCHANGED loopVars

SetSessionConfig(config) ==
  /\ phase = "running"
  /\ sendCtx = NoSend
  /\ lastSessionConfig' = config
  /\ UNCHANGED <<sessions, activeSession, claudeSession, uuidCount, trace,
                 sendCtx, procs, closeSeen, phase, last>>
  /\ UNCHANGED ledgerVars
  /\ UNCHANGED loopVars

GetOrCreateSession(config) ==
  /\ phase = "running"
  /\ sendCtx = NoSend
  /\ LET M2 == getOrCreateSession(SessionModule, config) IN
     /\ InstallSessions(M2)
     /\ last' = [op |-> "getOrCreateSession", session |-> M2.activeSession]
  /\ UNCHANGED <<lastSessionConfig, claudeSession, trace, sendCtx, procs,
                 closeSeen, phase>>
  /\ UNCHANGED ledgerVars
  /\ UNCHANGED loopVars

SessionApiNext ==
  \/ AgentRun
  \/ \E config \in Configs : SetSessionConfig(config)
  \/ \E config \in Configs : GetOrCreateSession(config)
  \/ SendToClaude
  \/ \E code \in ExitCodes : ProcClose(code, "o", "")
  \/ ProcTimeout("")
  \/ ResetClaudeSessionTool

SpecSessionApi == Init /\ [][SessionApiNext]_vars

\* a caller holding an array from getTodos() while the ledger is used
SnapshotNext ==
  \/ \E newTodos \in SeqsUpTo([task : NewTasks, status : {"pending"}], MaxTodos) :
       TodoWrite(newTodos)
  \/ \E tasks \in SeqsUpTo([task : NewTasks, status : {""}], 1) : TodoAdd(tasks)
  \/ \E id \in 1..MaxId : TodoUpdate(id, "completed")
  \/ \E id \in 1..MaxId : UpdateTodoTask(id, "b")
  \/ \E id \in 1..MaxId : TodoRemove(id)
  \/ GetTodos

SpecSnapshot == Init /\ [][SnapshotNext]_vars

\* ---------------------------------------------------------------------------
\* tools/index.ts (defineTool) and the parameter schemas of the tools
\* ---------------------------------------------------------------------------
\* the tools registered with the provider in this model
ToolNames ==
  {"todo_write", "todo_update", "mark_task_complete", "send_to_claude",
   "reset_claude_session"}

\* z.object({todos: z.array(z.object({task: z.string(), status: z.enum})))
todoWriteSchema(input) ==
  /\ "todos" \in DOMAIN input
  /\ \A i \in 1..Len(input.todos) : input.todos[i].status \in Statuses

\* z.object({prompt: z.string()})
sendToClaudeSchema(input) == "prompt" \in DOMAIN input

\* z.object({id: z.number(), status: z.enum})
todoUpdateSchema(input) ==
  /\ {"id", "status"} \subseteq DOMAIN input
  /\ input.status \in Statuses

\* z.object({reason: z.string()})
resetSessionSchema(input) == "reason" \in DOMAIN input

\* z.object({summary: z.string(), success: z.boolean()})
markCompleteSchema(input) == {"summary", "success"} \subseteq DOMAIN input

Schema(name, input) ==
  CASE name = "todo_write" -> todoWriteSchema(input)
    [] name = "todo_update" -> todoUpdateSchema(input)
    [] name = "mark_task_complete" -> markCompleteSchema(input)
    [] name = "send_to_claude" -> sendToClaudeSchema(input)
    [] name = "reset_claude_session" -> resetSessionSchema(input)
    [] OTHER -> FALSE

\* a wrapper that hands every input to the handler
parse_unchecked(name, input) == TRUE

\* config.parameters.parse(args): TRUE when it returns, FALSE when it throws
parse(name, input) == Schema(name, input)

\* the tool-use blocks the scripted model chooses from: a valid and an
\* invalid input for each tool, and a tool that is not registered
ToolUses ==
  {[name |-> "todo_write",
    input |-> [todos |-> <<[task |-> "a", status |-> "pending"]>>]],
   [name |-> "todo_write",
    input |-> [todos |-> <<[task |-> "a", status |-> "done"]>>]],
   [name |-> "send_to_claude", input |-> [prompt |-> "p"]],
   [name |-> "send_to_claude", input |-> [text |-> "p"]],
   [name |-> "no_such_tool", input |-> [prompt |-> "p"]]}

\* the text of a turn; "" is a turn without text
Texts == {"", "t"}

\* ---------------------------------------------------------------------------
\* anthropic-provider.ts: the agentic loop of run()
\* ---------------------------------------------------------------------------
\* a stream event: its type and, of its data, the id and the name of the
\* tool call it belongs to (0 and "" when its data has none)
Event(type, id, name) == [type |-> type, id |-> id, name |-> name]

\* the events one text block yields: a text_delta, if it has text
TextEvents(text) == IF text = "" THEN <<>> ELSE <<Event("text_delta", 0, "")>>

\* the ids the tool-use blocks of one turn carry
CallsOf(uses, firstId) ==
  [i \in 1..Len(uses) |-> [id |-> firstId + i - 1, name |-> uses[i].name]]

RECURSIVE ToolCallEvents(_)
\* the events tool-use blocks yield: start, argument delta and end of each
ToolCallEvents(calls) ==
  IF calls = <<>> THEN <<>>
  ELSE <<Event("tool_call_start", Head(calls).id, Head(calls).name),
         Event("tool_call_delta", Head(calls).id, ""),
         Event("tool_call_end", Head(calls).id, Head(calls).name)>>
       \o ToolCallEvents(Tail(calls))

\* an output that keeps the text of the latest turn only
AddText_latest(out, text) == IF text = "" THEN <<>> ELSE <<text>>

\* outputText += event.delta.text
AddText(out, text) == IF text = "" THEN out ELSE Append(out, text)

\* run() is called: the conversation starts with the user prompt
ProviderRun ==
  /\ phase = "running"
  /\ loopPc = "idle"
  /\ messages' = <<[role |-> "user", content |-> "prompt"]>>
  /\ loopPc' = "request"
  /\ UNCHANGED <<pendingToolCalls, callIdx, toolResults, outputText, calling,
                 nextCallId, requests, turns, handlerLog, runResult>>
  /\ UNCHANGED <<last>>
  /\ events' = Append(events, Event("message_start", 0, ""))
  /\ UNCHANGED <<envConfig, exitStatus, reported>>
  /\ UNCHANGED ledgerVars
  /\ UNCHANGED sessionVars

\* one completion request, answered by a turn with this text and these
\* tool-use blocks: with tool calls the assistant turn is appended and the
\* calls are served, without any the loop ends and run() returns
ModelTurn(text, uses) ==
  /\ loopPc = "request"
  /\ requests < MaxTurns
  /\ nextCallId + Len(uses) - 1 <= MaxCalls
  /\ requests' = requests + 1
  /\ outputText' = AddText(outputText, text)
  /\ LET calls == [i \in 1..Len(uses) |->
                     [id |-> nextCallId + i - 1, name |-> uses[i].name,
                      input |-> uses[i].input]]
         ids == [i \in 1..Len(uses) |-> nextCallId + i - 1] IN
     /\ turns' = Append(turns,
                        [text |-> text,
                         calls |-> [i \in 1..Len(uses) |->
                                      [id |-> ids[i], name |-> uses[i].name]]])
     /\ IF Len(calls) > 0
        THEN /\ messages' = Append(messages, [role |-> "assistant", text |-> text,
                                              calls |-> ids])
             /\ pendingToolCalls' = calls
             /\ callIdx' = 1
             /\ nextCallId' = nextCallId + Len(uses)
             /\ loopPc' = "tools"
             /\ UNCHANGED runResult
        ELSE /\ loopPc' = "done"
             /\ runResult' = [success |-> TRUE, output |-> outputText',
                              returned |-> TRUE]
             /\ UNCHANGED <<messages, pendingToolCalls, callIdx, nextCallId>>
  /\ UNCHANGED <<toolResults, calling, handlerLog>>
  /\ UNCHANGED <<last>>
  /\ events' = events \o TextEvents(text)
                 \o ToolCallEvents(CallsOf(uses, nextCallId))
                 \o (IF Len(uses) = 0 THEN <<Event("message_end", 0, "")>> ELSE <<>>)
  /\ UNCHANGED <<envConfig, exitStatus, reported>>
  /\ UNCHANGED ledgerVars
  /\ UNCHANGED sessionVars

\* what the catch returns as output: the message of the error
ErrorOutput == <<"error.message">>

\* a catch that yields the error event and lets the loop go round
ModelError_retry(text) ==
  /\ loopPc = "request"
  /\ requests < MaxTurns
  /\ requests' = requests + 1
  /\ outputText' = AddText(outputText, text)
  /\ events' = events \o TextEvents(text) \o <<Event("error", 0, "")>>
  /\ reported' = [reported EXCEPT !.errors = @ + 1]
  /\ UNCHANGED <<loopPc, messages, pendingToolCalls, callIdx, toolResults, calling,
                 nextCallId, turns, handlerLog, runResult>>
  /\ UNCHANGED <<envConfig, exitStatus>>
  /\ UNCHANGED <<last>>
  /\ UNCHANGED ledgerVars
  /\ UNCHANGED sessionVars

\* the request or its stream throws after this text: the catch yields one
\* error event, which agent.run() hands to onError, and run() returns the
\* failure
ModelError(text) ==
  /\ loopPc = "request"
  /\ requests < MaxTurns
  /\ requests' = requests + 1
  /\ outputText' = AddText(outputText, text)
  /\ loopPc' = "failed"
  /\ runResult' = [success |-> FALSE, output |-> ErrorOutput, returned |-> TRUE]
  /\ UNCHANGED <<messages, pendingToolCalls, callIdx, toolResults, calling,
                 nextCallId, turns, handlerLog>>
  /\ UNCHANGED <<last>>
  /\ events' = events \o TextEvents(text) \o <<Event("error", 0, "")>>
  /\ reported' = [reported EXCEPT !.errors = @ + 1]
  /\ UNCHANGED <<envConfig, exitStatus>>
  /\ UNCHANGED ledgerVars
  /\ UNCHANGED sessionVars

\* the stream throws inside a tool-use block: the blocks before the last of
\* these were streamed whole, the last one had started and its arguments were
\* arriving; the catch yields the error event and run() returns the failure
ModelErrorInToolCall(uses) ==
  /\ loopPc = "request"
  /\ requests < MaxTurns
  /\ uses # <<>>
  /\ nextCallId + Len(uses) - 1 <= MaxCalls
  /\ requests' = requests + 1
  /\ loopPc' = "failed"
  /\ runResult' = [success |-> FALSE, output |-> ErrorOutput, returned |-> TRUE]
  /\ LET calls == CallsOf(uses, nextCallId)
         n == Len(calls) IN
     events' = events \o ToolCallEvents(SubSeq(calls, 1, n - 1))
                 \o <<Event("tool_call_start", calls[n].id, calls[n].name),
                      Event("tool_call_delta", calls[n].id, ""),
                      Event("error", 0, "")>>
  /\ reported' = [reported EXCEPT !.errors = @ + 1]
  /\ UNCHANGED <<messages, pendingToolCalls, callIdx, toolResults, outputText,
                 calling, nextCallId, turns, handlerLog>>
  /\ UNCHANGED <<envConfig, exitStatus>>
  /\ UNCHANGED <<last>>
  /\ UNCHANGED ledgerVars
  /\ UNCHANGED sessionVars

\* the for loop is at a call and no handler is awaited
AtCall ==
  /\ loopPc = "tools"
  /\ callIdx <= Len(pendingToolCalls)
  /\ calling = NoCalling

CurrentCall == pendingToolCalls[callIdx]

\* toolMap.get(name) is undefined: the call is passed over
ToolUnknown ==
  /\ AtCall
  /\ CurrentCall.name \notin ToolNames
  /\ callIdx' = callIdx + 1
  /\ UNCHANGED <<loopPc, messages, pendingToolCalls, toolResults, outputText,
                 calling, nextCallId, requests, turns, handlerLog, runResult>>
  /\ UNCHANGED <<last>>
  /\ UNCHANGED events
  /\ UNCHANGED <<envConfig, exitStatus, reported>>
  /\ UNCHANGED ledgerVars
  /\ UNCHANGED sessionVars

\* execute() throws while parsing the input: the catch reports the error as
\* the result of the call
ToolRejected ==
  /\ AtCall
  /\ CurrentCall.name \in ToolNames
  /\ ~parse(CurrentCall.name, CurrentCall.input)
  /\ toolResults' = Append(toolResults,
                           [tool_use_id |-> CurrentCall.id, is_error |-> TRUE])
  /\ callIdx' = callIdx + 1
  /\ UNCHANGED <<loopPc, messages, pendingToolCalls, outputText, calling,
                 nextCallId, requests, turns, handlerLog, runResult>>
  /\ UNCHANGED <<last>>
  /\ UNCHANGED events
  /\ UNCHANGED <<envConfig, exitStatus, reported>>
  /\ UNCHANGED ledgerVars
  /\ UNCHANGED sessionVars

\* a loop that starts the handler of a call without awaiting the one before
ToolStart_noAwait ==
  /\ loopPc = "tools"
  /\ callIdx <= Len(pendingToolCalls)
  /\ CurrentCall.name \in ToolNames
  /\ parse(CurrentCall.name, CurrentCall.input)
  /\ calling' = CurrentCall
  /\ handlerLog' = Append(handlerLog,
                          [ev |-> "start", id |-> CurrentCall.id,
                           name |-> CurrentCall.name, input |-> CurrentCall.input])
  /\ last' = NoCall
  /\ UNCHANGED <<loopPc, messages, pendingToolCalls, callIdx, toolResults,
                 outputText, nextCallId, requests, turns, runResult>>
  /\ UNCHANGED events
  /\ UNCHANGED <<envConfig, exitStatus, reported>>
  /\ UNCHANGED ledgerVars
  /\ UNCHANGED sessionVars

\* execute() parses the input and calls the handler, which the loop awaits
ToolStart ==
  /\ AtCall
  /\ CurrentCall.name \in ToolNames
  /\ parse(CurrentCall.name, CurrentCall.input)
  /\ calling' = CurrentCall
  /\ handlerLog' = Append(handlerLog,
                          [ev |-> "start", id |-> CurrentCall.id,
                           name |-> CurrentCall.name, input |-> CurrentCall.input])
  /\ last' = NoCall
  /\ UNCHANGED <<loopPc, messages, pendingToolCalls, callIdx, toolResults,
                 outputText, nextCallId, requests, turns, runResult>>
  /\ UNCHANGED events
  /\ UNCHANGED <<envConfig, exitStatus, reported>>
  /\ UNCHANGED ledgerVars
  /\ UNCHANGED sessionVars

\* the handler of the awaited call runs
RunTodoWrite ==
  /\ calling.name = "todo_write"
  /\ last = NoCall
  /\ TodoWrite(calling.input.todos)

RunSendToClaude ==
  /\ calling.name = "send_to_claude"
  /\ last = NoCall
  /\ sendCtx = NoSend
  /\ SendToClaude

RunResetClaudeSession ==
  /\ calling.name = "reset_claude_session"
  /\ last = NoCall
  /\ ResetClaudeSessionTool

RunTodoUpdate ==
  /\ calling.name = "todo_update"
  /\ last = NoCall
  /\ TodoUpdate(calling.input.id, calling.input.status)

RunMarkTaskComplete ==
  /\ calling.name = "mark_task_complete"
  /\ last = NoCall
  /\ MarkTaskComplete(calling.input.success)

\* the promise execute() returned was rejected: the handler threw
Thrown(r) == "returned" \in DOMAIN r /\ ~r.returned

\* a loop whose catch gives up the run when a handler throws
ToolThrows_endsLoop ==
  /\ calling # NoCalling
  /\ Thrown(last)
  /\ handlerLog' = Append(handlerLog,
                          [ev |-> "end", id |-> calling.id,
                           name |-> calling.name, input |-> calling.input])
  /\ calling' = NoCalling
  /\ loopPc' = "failed"
  /\ runResult' = [success |-> FALSE, output |-> ErrorOutput, returned |-> TRUE]
  /\ events' = Append(events, Event("error", 0, ""))
  /\ UNCHANGED <<messages, pendingToolCalls, callIdx, toolResults, outputText,
                 nextCallId, requests, turns>>
  /\ UNCHANGED <<envConfig, exitStatus, reported>>
  /\ UNCHANGED <<last>>
  /\ UNCHANGED ledgerVars
  /\ UNCHANGED sessionVars

\* the awaited handler threw: the catch pushes the error as the result of the
\* call and the for loop moves on
ToolThrows ==
  /\ calling # NoCalling
  /\ Thrown(last)
  /\ toolResults' = Append(toolResults,
                           [tool_use_id |-> calling.id, is_error |-> TRUE])
  /\ handlerLog' = Append(handlerLog,
                          [ev |-> "end", id |-> calling.id,
                           name |-> calling.name, input |-> calling.input])
  /\ calling' = NoCalling
  /\ callIdx' = callIdx + 1
  /\ UNCHANGED <<loopPc, messages, pendingToolCalls, outputText, nextCallId,
                 requests, turns, runResult>>
  /\ UNCHANGED events
  /\ UNCHANGED <<envConfig, exitStatus, reported>>
  /\ UNCHANGED <<last>>
  /\ UNCHANGED ledgerVars
  /\ UNCHANGED sessionVars

\* the awaited handler has resolved: its result is pushed and the for loop
\* moves on
ToolReturn ==
  /\ calling # NoCalling
  /\ last # NoCall
  /\ ~Thrown(last)
  /\ sendCtx = NoSend
  /\ toolResults' = Append(toolResults,
                           [tool_use_id |-> calling.id, is_error |-> FALSE])
  /\ handlerLog' = Append(handlerLog,
                          [ev |-> "end", id |-> calling.id,
                           name |-> calling.name, input |-> calling.input])
  /\ calling' = NoCalling
  /\ callIdx' = callIdx + 1
  /\ UNCHANGED <<loopPc, messages, pendingToolCalls, outputText, nextCallId,
                 requests, turns, runResult>>
  /\ UNCHANGED <<last>>
  /\ UNCHANGED events
  /\ UNCHANGED <<envConfig, exitStatus, reported>>
  /\ UNCHANGED ledgerVars
  /\ UNCHANGED sessionVars

\* after the last call the results are appended as one user turn and the
\* loop goes round
PushResults ==
  /\ loopPc = "tools"
  /\ callIdx > Len(pendingToolCalls)
  /\ calling = NoCalling
  /\ messages' = Append(messages, [role |-> "user", results |-> toolResults])
  /\ pendingToolCalls' = <<>>
  /\ callIdx' = 0
  /\ toolResults' = <<>>
  /\ loopPc' = "request"
  /\ UNCHANGED <<outputText, calling, nextCallId, requests, turns, handlerLog,
                 runResult>>
  /\ UNCHANGED <<last>>
  /\ UNCHANGED events
  /\ UNCHANGED <<envConfig, exitStatus, reported>>
  /\ UNCHANGED ledgerVars
  /\ UNCHANGED sessionVars

LoopNext ==
  \/ \E workingDir \in {"d1"} : MainInit(workingDir)
  \/ ProviderRun
  \/ \E text \in Texts, uses \in SeqsUpTo(ToolUses, MaxCalls) : ModelTurn(text, uses)
  \/ ModelError("")
  \/ \E uses \in SeqsUpTo({[name |-> "send_to_claude", input |-> [prompt |-> "p"]]},
                          MaxCalls) : ModelErrorInToolCall(uses)
  \/ ToolUnknown
  \/ ToolRejected
  \/ ToolStart
  \/ RunTodoWrite
  \/ RunSendToClaude
  \/ ProcClose(0, "o", "")
  \/ ToolReturn
  \/ PushResults

SpecLoop == Init /\ [][LoopNext]_vars

\* ---------------------------------------------------------------------------
\* index.ts, agent.ts, config/index.ts, providers/index.ts: main from
\* start-up to the end of the run, with the Anthropic loop underneath
\* ---------------------------------------------------------------------------
\* the providers createProvider() knows
Providers == {"openai", "anthropic", "zai"}

\* the environments main starts in: which credentials are set, the provider
\* the loaded config names and the MAX_ITERATIONS setting
Envs ==
  {[keys |-> {"anthropic"}, provider |-> "anthropic", maxIterations |-> 1,
    loaded |-> TRUE],
   [keys |-> {}, provider |-> "anthropic", maxIterations |-> 1, loaded |-> TRUE],
   [keys |-> {"openai"}, provider |-> "anthropic", maxIterations |-> 1,
    loaded |-> TRUE],
   [keys |-> {"anthropic"}, provider |-> "mistral", maxIterations |-> 1,
    loaded |-> TRUE]}

\* hasApiKey(): some credential is set, whichever provider it is for
hasApiKey(env) == env.keys # {}

\* getApiKey(provider) is defined
getApiKey(env, provider) == provider \in Providers /\ provider \in env.keys

\* createProvider(modelConfig) returns a provider
createProvider(provider) == provider \in Providers

\* a constructor that never throws
FrinkAgent_lenient(env) == TRUE

\* new FrinkAgent(...) returns: the configured provider has a credential and
\* is one createProvider() knows
FrinkAgent(env) == getApiKey(env, env.provider) /\ createProvider(env.provider)

\* loadEnvironment(), and the config file loadConfig() will find
LoadEnvironment(env) ==
  /\ phase = "start"
  /\ ~envConfig.loaded
  /\ envConfig' = env
  /\ UNCHANGED <<loopPc, messages, pendingToolCalls, callIdx, toolResults,
                 outputText, calling, nextCallId, requests, turns, handlerLog,
                 runResult, events, exitStatus, reported>>
  /\ UNCHANGED <<last>>
  /\ UNCHANGED ledgerVars
  /\ UNCHANGED sessionVars

\* if (!hasApiKey()) ... process.exit(1)
NoApiKeyExit ==
  /\ phase = "start"
  /\ envConfig.loaded
  /\ ~hasApiKey(envConfig)
  /\ exitStatus' = 1
  /\ phase' = "exited"
  /\ UNCHANGED <<sessions, activeSession, lastSessionConfig, claudeSession,
                 uuidCount, trace, sendCtx, procs, closeSeen>>
  /\ UNCHANGED <<loopPc, messages, pendingToolCalls, callIdx, toolResults,
                 outputText, calling, nextCallId, requests, turns, handlerLog,
                 runResult, events, envConfig, reported>>
  /\ UNCHANGED <<last>>
  /\ UNCHANGED ledgerVars

\* with a credential in the environment main initializes the session
DriverInit(workingDir) ==
  /\ envConfig.loaded
  /\ hasApiKey(envConfig)
  /\ MainInit(workingDir)

\* new FrinkAgent(...) throws: the catch reports the error and calls
\* process.exit(1)
AgentCreateFails ==
  /\ phase = "running"
  /\ loopPc = "idle"
  /\ last = NoCall
  /\ envConfig.loaded
  /\ ~FrinkAgent(envConfig)
  /\ exitStatus' = 1
  /\ phase' = "exited"
  /\ UNCHANGED <<sessions, activeSession, lastSessionConfig, claudeSession,
                 uuidCount, trace, sendCtx, procs, closeSeen>>
  /\ UNCHANGED <<loopPc, messages, pendingToolCalls, callIdx, toolResults,
                 outputText, calling, nextCallId, requests, turns, handlerLog,
                 runResult, events, envConfig, reported>>
  /\ UNCHANGED <<last>>
  /\ UNCHANGED ledgerVars

\* the task file's tasks are loaded into the ledger, each of them pending
SetPredefinedTasks(tasks) ==
  /\ phase = "running"
  /\ loopPc = "idle"
  /\ last = NoCall
  /\ envConfig.loaded
  /\ FrinkAgent(envConfig)
  /\ Len(tasks) > 0
  /\ LET todoInputs == [i \in 1..Len(tasks) |->
                          [task |-> tasks[i], status |-> "pending"]]
         L2 == setTodos(Ledger, todoInputs, Range(held)) IN
     /\ Install(L2, held)
     /\ issued' = IdsOf(L2)
  /\ last' = [op |-> "setTodos"]
  /\ UNCHANGED <<heldSeen, mcPc, mcCtx, lastRenderedLineCount>>
  /\ UNCHANGED sessionVars
  /\ UNCHANGED loopVars

\* main starts to iterate agent.run()
DriverRun ==
  /\ envConfig.loaded
  /\ FrinkAgent(envConfig)
  /\ ProviderRun

\* the stream throws instead of yielding: agent.run() reports it through
\* onError and rethrows
StreamThrows ==
  /\ phase = "running"
  /\ loopPc = "idle"
  /\ envConfig.loaded
  /\ FrinkAgent(envConfig)
  /\ loopPc' = "thrown"
  /\ reported' = [reported EXCEPT !.errors = @ + 1]
  /\ UNCHANGED <<messages, pendingToolCalls, callIdx, toolResults, outputText,
                 calling, nextCallId, requests, turns, handlerLog, runResult,
                 events, envConfig, exitStatus>>
  /\ UNCHANGED <<last>>
  /\ UNCHANGED ledgerVars
  /\ UNCHANGED sessionVars

\* the stream has ended or thrown
RunEnded == phase = "running" /\ loopPc \in {"done", "failed", "thrown"}

\* a success that looks at the completed count only
Success_completedOnly(todoSummary) == todoSummary.completed > 0

\* todoSummary.total > 0 && todoSummary.completed === todoSummary.total
Success(todoSummary) ==
  todoSummary.total > 0 /\ todoSummary.completed = todoSummary.total

\* what main shows after the for await: the result, or, when the stream
\* threw, the error its catch logs
ShowResult ==
  IF loopPc = "thrown" THEN [reported EXCEPT !.errors = @ + 1]
  ELSE [reported EXCEPT !.shown = TRUE,
                        !.success = Success(getTodoSummary(Ledger)),
                        !.calls = sessions[claudeSession].callCount]

\* a main that resets only after a stream that completed
MainFinish_noFinally ==
  /\ RunEnded
  /\ reported' = ShowResult
  /\ IF loopPc = "done"
     THEN /\ InstallSessions(resetSession(SessionModule))
          /\ Install(resetTodoState(Ledger), held)
          /\ lastRenderedLineCount' = resetTodoRenderer
          /\ issued' = <<>>
     ELSE UNCHANGED <<sessions, activeSession, uuidCount, heap, todos,
                      nextTodoId, held, lastRenderedLineCount, issued>>
  /\ trace' = Append(trace, [kind |-> "reset"])
  /\ last' = [op |-> "resetAllState"]
  /\ phase' = "done"
  /\ UNCHANGED <<lastSessionConfig, claudeSession, sendCtx, procs, closeSeen,
                 heldSeen, mcPc, mcCtx>>
  /\ UNCHANGED <<loopPc, messages, pendingToolCalls, callIdx, toolResults,
                 outputText, calling, nextCallId, requests, turns, handlerLog,
                 runResult, events, envConfig, exitStatus>>

\* the end of main's try: the result is shown if the stream did not throw,
\* the catch reports what was thrown, and finally resetAllState() runs
MainFinish ==
  /\ RunEnded
  /\ reported' = ShowResult
  /\ InstallSessions(resetSession(SessionModule))
  /\ Install(resetTodoState(Ledger), held)
  /\ lastRenderedLineCount' = resetTodoRenderer
  /\ issued' = <<>>
  /\ trace' = Append(trace, [kind |-> "reset"])
  /\ last' = [op |-> "resetAllState"]
  /\ phase' = "done"
  /\ UNCHANGED <<lastSessionConfig, claudeSession, sendCtx, procs, closeSeen,
                 heldSeen, mcPc, mcCtx>>
  /\ UNCHANGED <<loopPc, messages, pendingToolCalls, callIdx, toolResults,
                 outputText, calling, nextCallId, requests, turns, handlerLog,
                 runResult, events, envConfig, exitStatus>>

\* the task lists of the task files main may be given
TaskFiles == {<<"a">>, <<"a", "b">>}

\* the tool-use blocks the scripted model chooses from in a driven run
DriverToolUses ==
  {[name |-> "todo_write",
    input |-> [todos |-> <<[task |-> "a", status |-> "pending"]>>]],
   [name |-> "todo_update", input |-> [id |-> 1, status |-> "in_progress"]],
   [name |-> "todo_update", input |-> [id |-> 1, status |-> "completed"]],
   [name |-> "todo_update", input |-> [id |-> 2, status |-> "completed"]],
   [name |-> "mark_task_complete", input |-> [summary |-> "s", success |-> TRUE]]}

DriverNext ==
  \/ \E env \in Envs : LoadEnvironment(env)
  \/ NoApiKeyExit
  \/ \E workingDir \in {"d1"} : DriverInit(workingDir)
  \/ AgentCreateFails
  \/ \E tasks \in TaskFiles : SetPredefinedTasks(tasks)
  \/ DriverRun
  \/ StreamThrows
  \/ \E uses \in SeqsUpTo(DriverToolUses, MaxCalls) : ModelTurn("t", uses)
  \/ ModelError("")
  \/ ToolStart
  \/ RunTodoWrite
  \/ RunTodoUpdate
  \/ RunMarkTaskComplete
  \/ \E userConfirmed \in BOOLEAN : ConfirmAnswer(userConfirmed)
  \/ InputAnswer("f")
  \/ PromptThrows
  \/ ToolReturn
  \/ ToolThrows
  \/ PushResults
  \/ MainFinish

SpecDriver == Init /\ [][DriverNext]_vars

\* the tool-use blocks the scripted model chooses from in a run that sends
\* to the assistant and resets its session
ReportToolUses ==
  {[name |-> "send_to_claude", input |-> [prompt |-> "p"]],
   [name |-> "reset_claude_session", input |-> [reason |-> "r"]]}

\* a run of main in which the model sends and resets, up to the result
ReportNext ==
  \/ \E workingDir \in {"d1"} : MainInit(workingDir)
  \/ ProviderRun
  \/ \E uses \in SeqsUpTo(ReportToolUses, MaxCalls) : ModelTurn("t", uses)
  \/ ToolStart
  \/ RunSendToClaude
  \/ RunResetClaudeSession
  \/ ProcClose(0, "o", "")
  \/ ToolReturn
  \/ PushResults
  \/ MainFinish

SpecReport == Init /\ [][ReportNext]_vars

\* ---------------------------------------------------------------------------
\* tools/index.ts: the tool registry and the custom tools built from the
\* configuration.  A string is modelled as a sequence of tokens: a token is
\* a placeholder, a replacement pattern or a piece of plain text.
\* ---------------------------------------------------------------------------
\* the names of coreTools, in the order of the array
coreTools ==
  <<"send_to_claude", "todo_write", "todo_read", "todo_add", "todo_update",
    "todo_remove", "git_status", "read_file", "mark_task_complete",
    "reset_claude_session">>

\* the names a config.json gives its custom tools
CustomNames == {"run_tests", "lint", "mark_task_complete"}

\* customTools of the configuration: any list of declarations, up to a length
CustomToolConfigs ==
  SeqsUpTo([name : CustomNames, command : {<<"make">>}], MaxCustom)

\* one tool per declaration, named as declared
buildCustomTools(customToolConfigs) ==
  [i \in 1..Len(customToolConfigs) |->
     [name |-> customToolConfigs[i].name, custom |-> TRUE, index |-> i]]

\* [...coreTools], and the custom tools when there are declarations and a
\* working directory
getAllTools(customToolConfigs, workingDir) ==
  [i \in 1..Len(coreTools) |-> [name |-> coreTools[i], custom |-> FALSE, index |-> i]]
  \o (IF Len(customToolConfigs) > 0 /\ workingDir # ""
      THEN buildCustomTools(customToolConfigs) ELSE <<>>)

\* new Map(tools.map(t => [t.name, t])): of the entries with one key the
\* last one stays
toolMap(tools) ==
  [n \in {tools[i].name : i \in 1..Len(tools)} |->
     LET at == CHOOSE i \in 1..Len(tools) :
                 /\ tools[i].name = n
                 /\ \A j \in (i + 1)..Len(tools) : tools[j].name # n
     IN tools[at]]

\* the agent is constructed, once, with this configuration and run() builds
\* its map
GetAllTools(customToolConfigs, workingDir) ==
  /\ last = NoCall
  /\ last' = [op |-> "getAllTools",
              tools |-> getAllTools(customToolConfigs, workingDir),
              toolMap |-> toolMap(getAllTools(customToolConfigs, workingDir))]
  /\ UNCHANGED ledgerVars
  /\ UNCHANGED sessionVars
  /\ UNCHANGED loopVars

\* the parameters a custom tool declares
ParamNames == {"file", "dir"}

\* the {{key}} and the ${key} placeholder of a parameter
Braces == [file |-> "{{file}}", dir |-> "{{dir}}"]

Dollar == [file |-> "${file}", dir |-> "${dir}"]

\* the tokens of a command template
TemplateTokens == {"test ", "{{file}}", "${file}", "{{dir}}", "${dir}"}

Templates == SeqsUpTo(TemplateTokens, MaxTemplate)

\* the values the model passes for a parameter: strings of one token
ArgValues == {<<"a.ts">>, <<"{{dir}}">>, <<"${file}">>, <<"$&">>, <<"$$">>}

\* the arguments of a call in the order Object.entries() lists them: each
\* parameter at most once
ArgLists ==
  {as \in SeqsUpTo([key : ParamNames, value : ArgValues], Cardinality(ParamNames)) :
     \A i, j \in 1..Len(as) : i # j => as[i].key # as[j].key}

RECURSIVE GetSubstitution(_, _)
\* what String.prototype.replace puts in for a match when the replacement is
\* a string: $& stands for the matched text and $$ for a dollar sign
GetSubstitution(value, matched) ==
  IF value = <<>> THEN <<>>
  ELSE (CASE Head(value) = "$&" -> <<matched>>
          [] Head(value) = "$$" -> <<"$">>
          [] OTHER -> <<Head(value)>>)
       \o GetSubstitution(Tail(value), matched)

RECURSIVE ReplaceAll(_, _, _)
\* command.replace(new RegExp("\\{\\{key\\}\\}|\\$\\{key\\}", "g"), value)
ReplaceAll(command, key, value) ==
  IF command = <<>> THEN <<>>
  ELSE (IF Head(command) \in {Braces[key], Dollar[key]}
        THEN GetSubstitution(value, Head(command))
        ELSE <<Head(command)>>)
       \o ReplaceAll(Tail(command), key, value)

RECURSIVE executeCommand(_, _)
\* the for loop over Object.entries(args): one replace after the other, each
\* on the result of the one before; the result is what bash is given
executeCommand(command, args) ==
  IF args = <<>> THEN command
  ELSE executeCommand(ReplaceAll(command, Head(args).key, Head(args).value),
                      Tail(args))

\* String(value) of an argument the schema has checked to be a string
String(value) == value

\* what a spawned process does: it closes with a code (NullCode when a
\* signal ended it) after writing to its output and error streams, or it
\* raises "error"
ProcOutcomes ==
  [kind : {"close"}, code : {0, 1, NullCode}, out : {"o"}, err : {"", "e"}]
  \cup [kind : {"error"}, code : {NullCode}, out : {""}, err : {""}]

\* what the "close" handler of executeCommand resolves with: output, plus
\* the error stream when there is one
customClose(code, out, err) ==
  LET exitCode == IF code = NullCode THEN 0 ELSE code IN
  [output   |-> <<out>> \o (IF err # "" THEN <<"[STDERR]", err>> ELSE <<>>),
   exitCode |-> exitCode,
   success  |-> (exitCode = 0)]

\* what the "error" handler of executeCommand resolves with
customError ==
  [output |-> <<"[ERROR]", "message">>, exitCode |-> 1, success |-> FALSE]

\* the custom tool is called: the arguments are stringified, the command is
\* built and run by bash, and the tool returns what executeCommand resolved
\* with when the process closed or raised "error"; no timer is set.  A call
\* leaves nothing behind for the next one, so one call is looked at.
ExecuteCommand(command, args, outcome) ==
  /\ last = NoCall
  /\ LET stringArgs == [i \in 1..Len(args) |->
                          [key |-> args[i].key, value |-> String(args[i].value)]]
         result == IF outcome.kind = "close"
                   THEN customClose(outcome.code, outcome.out, outcome.err)
                   ELSE customError IN
     last' = [op |-> "executeCommand", command |-> command, args |-> stringArgs,
              finalCommand |-> executeCommand(command, stringArgs),
              outcome |-> outcome,
              output |-> result.output,
              exitCode |-> result.exitCode, success |-> result.success]
  /\ UNCHANGED ledgerVars
  /\ UNCHANGED sessionVars
  /\ UNCHANGED loopVars

\* the model calls a custom tool: some template, arguments and behaviour of
\* the process
CustomToolCalled ==
  /\ last = NoCall
  /\ \E command \in Templates, args \in ArgLists, outcome \in ProcOutcomes :
       ExecuteCommand(command, args, outcome)

\* ---------------------------------------------------------------------------
\* config/index.ts, agent.ts, providers: the request parameters of the
\* provider the agent constructs.  A model name is the sequence of its
\* characters; a temperature is counted in tenths.
\* ---------------------------------------------------------------------------
ModelNames ==
  {<<"g", "p", "t", "-", "5">>,
   <<"g", "p", "t", "-", "5", ".", "2">>,
   <<"g", "p", "t", "-", "4", "o">>,
   <<"g", "p", "t", "-", "4", ".", "1">>,
   <<"o", "1">>,
   <<"o", "3", "-", "m", "i", "n", "i">>,
   <<"o", "4", "-", "m", "i", "n", "i">>,
   <<"c", "l", "a", "u", "d", "e">>}

\* model.startsWith(prefix)
startsWith(model, prefix) ==
  /\ Len(model) >= Len(prefix)
  /\ SubSeq(model, 1, Len(prefix)) = prefix

isReasoningModel(model) ==
  \/ startsWith(model, <<"g", "p", "t", "-", "5">>)
  \/ startsWith(model, <<"o", "1">>)
  \/ startsWith(model, <<"o", "3">>)
  \/ startsWith(model, <<"o", "4">>)

ConfigFields == {"provider", "model", "temperature", "maxTokens"}

DEFAULT_CONFIG ==
  [provider    |-> "openai",
   model       |-> <<"g", "p", "t", "-", "4", "o">>,
   temperature |-> 7,
   maxTokens   |-> 4096]

\* a config.json: the fields it has, and their values
ConfigFiles ==
  [fields      : SUBSET ConfigFields,
   provider    : {"openai", "anthropic"},
   model       : ModelNames,
   temperature : {2},
   maxTokens   : {8192}]

\* loadConfig(): { ...DEFAULT_CONFIG, ...config }
loadConfig(file) ==
  [f \in ConfigFields |-> IF f \in file.fields THEN file[f] ELSE DEFAULT_CONFIG[f]]

\* the ModelConfig the agent's constructor builds
modelConfig(config) ==
  [provider    |-> config.provider,
   model       |-> config.model,
   temperature |-> config.temperature,
   maxTokens   |-> config.maxTokens]

\* new OpenAIModel({...}) in OpenAIProvider's constructor; a temperature
\* that is left out is the empty sequence
OpenAIProvider(config) ==
  LET isReasoning == isReasoningModel(config.model) IN
  [maxTokens   |-> IF config.maxTokens # 0 THEN config.maxTokens
                   ELSE IF isReasoning THEN 16384 ELSE 4096,
   temperature |-> IF isReasoning THEN <<>>
                   ELSE <<IF config.temperature # 0 THEN config.temperature ELSE 7>>]

\* the parameters of AnthropicProvider's messages.stream(...)
AnthropicProvider(config) ==
  [maxTokens   |-> IF config.maxTokens # 0 THEN config.maxTokens ELSE 4096,
   temperature |-> <<IF config.temperature # 0 THEN config.temperature ELSE 7>>]

\* new FrinkAgent(): the configuration is loaded and the provider it names
\* is created with it
CreateProvider(file) ==
  /\ last = NoCall
  /\ LET config == modelConfig(loadConfig(file)) IN
     last' = [op |-> "createProvider", file |-> file,
              provider |-> config.provider, model |-> config.model,
              params |-> IF config.provider = "openai"
                         THEN OpenAIProvider(config)
                         ELSE AnthropicProvider(config)]
  /\ UNCHANGED ledgerVars
  /\ UNCHANGED sessionVars
  /\ UNCHANGED loopVars

ToolsNext ==
  \/ \E customToolConfigs \in CustomToolConfigs, workingDir \in {"", "d1"} :
       GetAllTools(customToolConfigs, workingDir)
  \/ CustomToolCalled
  \/ \E file \in ConfigFiles : CreateProvider(file)

SpecTools == Init /\ [][ToolsNext]_vars

\* ---------------------------------------------------------------------------
\* Properties of the ledger and of the completion gate
\* ---------------------------------------------------------------------------
LedgerView == View(heap, todos)

LedgerIds == IdsOf(Ledger)

NotCompleted == {"pending", "in_progress", "failed"}

Unfinished == SelectSeq(LedgerView, LAMBDA t : t.status \in NotCompleted)

MarkCompleteReturned == mcPc = "idle" /\ last.op = "mark_task_complete"

\* C1: a finished mark_task_complete call on a ledger with a task that is
\* not completed has refused (complete and success false) without asking for
\* confirmation and lists exactly the tasks that are not completed; no
\* confirmation is ever pending while such a task exists; a finished call on
\* a non-empty, fully completed ledger has asked for confirmation.
C1_CompletionGate ==
  /\ MarkCompleteReturned /\ Unfinished # <<>> =>
       /\ last.outcome = "refused"
       /\ last.returned /\ ~last.complete /\ ~last.success
       /\ ~last.asked
       /\ last.remainingTasks = Unfinished
       /\ last.todoSummary.remaining = Len(Unfinished)
  /\ mcPc # "idle" => Unfinished = <<>>
  /\ MarkCompleteReturned /\ Unfinished = <<>> /\ Len(todos) > 0 => last.asked

C1_Witness ==
  /\ MarkCompleteReturned
  /\ last.outcome = "refused"
  /\ Len(todos) = 2
  /\ LedgerView[1].status = "completed"
  /\ LedgerView[2].status = "pending"
  /\ last.remainingTasks = <<LedgerView[2]>>

\* C2: on an empty ledger mark_task_complete refuses: no confirmation is
\* pending or was asked, and no completion is reported.
C2_EmptyLedgerRefuses ==
  Len(todos) = 0 =>
    /\ mcPc = "idle"
    /\ last.op = "mark_task_complete" =>
         /\ ~last.asked
         /\ ~(last.returned /\ last.complete)

\* C3: mark_task_complete reports complete = true only when the confirmation
\* was asked and accepted.
C3_CompleteOnlyWhenAccepted ==
  last.op = "mark_task_complete" /\ last.returned /\ last.complete =>
    last.asked /\ last.accepted

\* C4: the ids issued since the last bulk replace (those the replace gave out
\* and, after them, every id add gave out) are strictly increasing, so none
\* is issued twice, whether or not its task was removed meanwhile; every id
\* in the ledger is one of them.
C4_IssuedIdsIncrease ==
  /\ \A i, j \in 1..Len(issued) : i < j => issued[i] < issued[j]
  /\ Range(LedgerIds) \subseteq Range(issued)
  /\ \A i \in 1..Len(issued) : issued[i] < nextTodoId

C4_Witness ==
  /\ issued = <<1, 2, 3>>
  /\ LedgerIds = <<1, 3>>
  /\ last.op = "todo_add"

\* C5: the ids in the ledger are pairwise distinct; add keeps the tasks
\* before it and their ids, updateStatus and updateDescription keep every
\* id, remove keeps the ids of the other tasks in order, and replaceAll gives
\* the N items the ids 1..N in list order.
C5_IdsUniqueAndStable ==
  [][/\ \A i, j \in 1..Len(LedgerIds') : i # j => LedgerIds'[i] # LedgerIds'[j]
     /\ last' = last => LedgerIds' = LedgerIds
     /\ last' # last =>
          CASE last'.op = "todo_write" ->
                 LedgerView' = [i \in 1..Len(last'.input) |->
                                  [id |-> i, task |-> last'.input[i].task,
                                   status |-> last'.input[i].status]]
            [] last'.op = "todo_add" ->
                 /\ Len(LedgerIds') = Len(LedgerIds) + Len(last'.input)
                 /\ SubSeq(LedgerIds', 1, Len(LedgerIds)) = LedgerIds
            [] last'.op = "todo_remove" ->
                 LedgerIds' = SelectSeq(LedgerIds, LAMBDA x : x # last'.id)
            [] last'.op = "resetTodoState" -> LedgerIds' = <<>>
            [] OTHER -> LedgerIds' = LedgerIds
    ]_vars

C5_Witness ==
  /\ last.op = "todo_update"
  /\ last.success
  /\ last.id = 3
  /\ LedgerIds = <<2, 3>>

\* C6: the four counts of summary() add up to total and total is the number
\* of tasks in the ledger; the summary todo_write returns has the length of
\* the list it was given as total.
C6_SummaryAddsUp ==
  /\ LET s == getTodoSummary(Ledger) IN
       /\ s.pending + s.inProgress + s.completed + s.failed = s.total
       /\ s.total = Len(todos)
  /\ last.op = "todo_write" =>
       /\ last.summary.total = Len(last.input)
       /\ last.summary.pending + last.summary.inProgress
            + last.summary.completed + last.summary.failed = last.summary.total
       /\ Len(last.todos) = Len(last.input)

C6_Witness ==
  /\ last.op = "todo_write"
  /\ Len(last.input) = 2
  /\ last.summary.inProgress = 1
  /\ last.summary.failed = 1

\* C7: todo_update with an id that is not in the ledger fails with "not
\* found" and leaves the tasks, their order, ids, descriptions and statuses
\* and the next id as they were.
C7_UpdateAbsentIsNoOp ==
  [][last'.op = "todo_update" /\ last'.id \notin Range(LedgerIds) =>
       /\ ~last'.success
       /\ last'.error = NotFound(last'.id)
       /\ todos' = todos
       /\ heap' = heap
       /\ nextTodoId' = nextTodoId
       /\ issued' = issued
    ]_vars

C7_Witness ==
  /\ last.op = "todo_update"
  /\ ~last.success
  /\ last.id = 2
  /\ LedgerIds = <<1, 3>>

\* C8: an array obtained from getTodos() keeps showing what it showed when
\* it was obtained, whatever is done to the ledger afterwards.
C8_ListIsSnapshot == View(heap, held) = heldSeen

\* ---------------------------------------------------------------------------
\* Properties of the session
\* ---------------------------------------------------------------------------
IsSend(e) == e.kind \in {"create", "resume"}

SendsBefore(i) == {j \in 1..(i - 1) : IsSend(trace[j])}

LastSendBefore(i) == CHOOSE j \in SendsBefore(i) : \A k \in SendsBefore(i) : k <= j

\* C9: a send that is the first one, or the first one after a reset, builds
\* a create invocation (--session-id) with a token no earlier invocation
\* carried; every other send builds a resume invocation (--resume) with the
\* token of the send before it.
C9_SessionLifecycle ==
  \A i \in 1..Len(trace) :
    IsSend(trace[i]) =>
      IF SendsBefore(i) = {}
         \/ \E k \in (LastSendBefore(i) + 1)..(i - 1) : trace[k].kind = "reset"
      THEN /\ trace[i].kind = "create"
           /\ trace[i].flag = "--session-id"
           /\ \A j \in SendsBefore(i) : trace[j].token # trace[i].token
      ELSE /\ trace[i].kind = "resume"
           /\ trace[i].flag = "--resume"
           /\ trace[i].token = trace[LastSendBefore(i)].token

C9_Witness ==
  /\ Len(trace) = 4
  /\ trace[1].kind = "create"
  /\ trace[2].kind = "resume"
  /\ trace[3].kind = "reset"
  /\ trace[4].kind = "create"
  /\ trace[2].token = trace[1].token
  /\ trace[4].token # trace[1].token

SendStartsOn(i) ==
  /\ Len(trace') = Len(trace) + 1
  /\ IsSend(trace'[Len(trace')])
  /\ sendCtx'.session = i

ResetToolStep ==
  /\ Len(trace') = Len(trace) + 1
  /\ trace'[Len(trace')].kind = "reset"
  /\ last'.op = "reset_claude_session"

\* C10: a step that starts a send on a session adds one to its callCount
\* and leaves isFirstCall false, no other step changes a callCount, and when
\* the send resolves (close, timeout or error) the count is one more than
\* before the send; isFirstCall never becomes true again; the reset tool
\* puts into the slot a new session with the working directory and
\* unattended mode of the old one, an unused token and callCount 0.
C10_CallCountAndReset ==
  [][/\ \A i \in 1..Len(sessions) :
          /\ sessions'[i].callCount =
               sessions[i].callCount + (IF SendStartsOn(i) THEN 1 ELSE 0)
          /\ ~sessions[i].isFirstCall => ~sessions'[i].isFirstCall
          /\ SendStartsOn(i) => ~sessions'[i].isFirstCall
          /\ sessions'[i].sessionId = sessions[i].sessionId
     /\ sendCtx # NoSend /\ sendCtx' = NoSend =>
          /\ sessions'[sendCtx.session].callCount = sendCtx.before + 1
          /\ last'.op = "send_to_claude"
          /\ last'.callNumber = sendCtx.before + 1
     /\ (ResetToolStep /\ activeSession # NoSession) =>
          /\ activeSession' # NoSession
          /\ activeSession' # activeSession
          /\ sessions'[activeSession'].workingDirectory
               = sessions[activeSession].workingDirectory
          /\ sessions'[activeSession'].yoloMode = sessions[activeSession].yoloMode
          /\ \A i \in 1..Len(sessions) :
               sessions[i].sessionId # sessions'[activeSession'].sessionId
          /\ sessions'[activeSession'].callCount = 0
          /\ sessions'[activeSession'].isFirstCall
    ]_vars

C10_Witness ==
  /\ Len(sessions) = 2
  /\ activeSession = 2
  /\ sessions[1].callCount = 2
  /\ sessions[2].callCount = 1
  /\ last.op = "send_to_claude"
  /\ last.exitCode = 124

\* ---------------------------------------------------------------------------
\* Properties of the outcomes of send()
\* ---------------------------------------------------------------------------
\* the timer of the send in flight fires in this step
TimerFires ==
  /\ sendCtx # NoSend
  /\ procs[Len(procs)].timer = "armed"
  /\ procs'[Len(procs)].timer = "fired"

\* the last tool result is that of a send() that ran a process
IsSendResult(r) == r.op = "send_to_claude" /\ "exitCode" \in DOMAIN r

\* C11: when the timer fires before the process has closed, the process is
\* sent SIGTERM and the send resolves in that very step with success false,
\* exit code 124 and an output that ends in the timeout marker; and a send
\* whose timer has fired is never still pending, whether the process is still
\* running, has failed or has closed since.
C11_TimeoutResolves ==
  [][ /\ TimerFires =>
           /\ sendCtx' = NoSend
           /\ procs'[Len(procs)].signal = "SIGTERM"
           /\ IsSendResult(last')
           /\ last'.success = FALSE
           /\ last'.exitCode = 124
           /\ last'.output[Len(last'.output)] = "[TIMEOUT]"
      /\ \A p \in 1..Len(procs') :
           procs'[p].timer = "fired" => (sendCtx' = NoSend \/ p # Len(procs'))
    ]_vars

\* a send timed out and returned while its process, signalled, still runs
C11_Witness ==
  /\ procs # <<>>
  /\ procs[Len(procs)].timer = "fired"
  /\ procs[Len(procs)].signal = "SIGTERM"
  /\ procs[Len(procs)].status = "running"
  /\ sendCtx = NoSend
  /\ IsSendResult(last)
  /\ last.exitCode = 124

\* the process of the send in flight closes in this step
CloseSettles ==
  /\ sendCtx # NoSend
  /\ procs'[Len(procs)].status = "closed"

\* C12: a send whose process closes, before the timeout, with a non-zero exit
\* code or with no exit code at all (ended by a signal) resolves with success
\* false and with the captured error stream appended to the output.
C12_AbnormalTermination ==
  [][ (CloseSettles /\ closeSeen'.code # 0) =>
        /\ IsSendResult(last')
        /\ last'.success = FALSE
        /\ closeSeen'.errorOutput # "" =>
             /\ Len(last'.output) = 3
             /\ last'.output[3] = closeSeen'.errorOutput
    ]_vars

\* the "error" event of the send in flight arrives in this step
ErrorSettles ==
  /\ sendCtx # NoSend
  /\ procs'[Len(procs)].status = "failed"

\* C13: an "error" event of the process of a pending send resolves the send
\* with the error marker as output, exit code 1 and success false; and every
\* result of a send has success true exactly when its exit code is 0.
C13_ErrorResolves ==
  [][ /\ ErrorSettles =>
           /\ sendCtx' = NoSend
           /\ IsSendResult(last')
           /\ last'.output = <<"[ERROR]", "message">>
           /\ last'.exitCode = 1
           /\ last'.success = FALSE
      /\ IsSendResult(last') => (last'.success <=> last'.exitCode = 0)
    ]_vars

\* a send returned the error result of a process that failed
C13_Witness ==
  /\ procs # <<>>
  /\ procs[Len(procs)].status = "failed"
  /\ procs[Len(procs)].timer = "cleared"
  /\ sendCtx = NoSend
  /\ IsSendResult(last)
  /\ last.exitCode = 1
  /\ last.output[1] = "[ERROR]"

\* ---------------------------------------------------------------------------
\* Properties of the session slot and of the reset tool
\* ---------------------------------------------------------------------------
\* a step that starts a send (the process is spawned)
SendStarts ==
  /\ Len(trace') = Len(trace) + 1
  /\ IsSend(trace'[Len(trace')])

\* the reset tool returned last, having built a session, and no send has been
\* started since
AfterResetWithConfig ==
  /\ last.op = "reset_claude_session"
  /\ last.newSessionId # 0
  /\ sendCtx = NoSend

\* C15: with a recorded configuration the reset tool reports the token and
\* the call count the outgoing session had before the reset, and leaves in
\* the slot a new session built from the recorded configuration, with a token
\* other than the previous one and callCount 0; the next send_to_claude call
\* does not fail for want of a session and sends a create invocation with the
\* new token.
C15_ResetWithConfig ==
  [][ /\ (ResetToolStep /\ lastSessionConfig.set) =>
           /\ activeSession # NoSession =>
                /\ last'.previousSessionId = sessions[activeSession].sessionId
                /\ last'.previousCallCount = sessions[activeSession].callCount
           /\ activeSession' # NoSession
           /\ activeSession' > Len(sessions)
           /\ sessions'[activeSession'].sessionId = last'.newSessionId
           /\ last'.newSessionId # last'.previousSessionId
           /\ sessions'[activeSession'].callCount = 0
           /\ sessions'[activeSession'].workingDirectory
                = lastSessionConfig.workingDirectory
           /\ sessions'[activeSession'].yoloMode = lastSessionConfig.yoloMode
      /\ AfterResetWithConfig =>
           /\ last' # NoSessionResult
           /\ SendStarts =>
                /\ trace'[Len(trace')].kind = "create"
                /\ trace'[Len(trace')].token = last.newSessionId
    ]_vars

\* a session that has been called is reset, and the send after the reset is
\* a create invocation of the new session
C15_Witness ==
  /\ last.op = "reset_claude_session"
  /\ last.previousCallCount > 0
  /\ last.newSessionId # 0
  /\ sendCtx # NoSend
  /\ trace[Len(trace)].kind = "create"
  /\ trace[Len(trace)].token = last.newSessionId

\* the reset tool returned last, with no configuration recorded, and the slot
\* has stayed empty since
AfterResetWithoutConfig ==
  /\ last.op = "reset_claude_session"
  /\ last.newSessionId = 0
  /\ ~lastSessionConfig.set
  /\ activeSession = NoSession

\* C16: when no configuration was ever recorded the reset tool leaves the
\* slot empty, and the next send_to_claude call creates a session and sends
\* its prompt: it does not return the no-session failure.
C16_ResetDefersCreation ==
  [][ /\ (ResetToolStep /\ ~lastSessionConfig.set) => activeSession' = NoSession
      /\ AfterResetWithoutConfig => last' # NoSessionResult
    ]_vars

\* send_to_claude returned the no-session failure in this step
NoSessionStep == last' = NoSessionResult /\ last # NoSessionResult

GetOrCreateStep == last'.op = "getOrCreateSession" /\ last' # last

\* C18: the slot holds at most one session; getOrCreateSession returns the
\* session in the slot, with its token, callCount and configuration as they
\* were, when there is one, and builds a session from its argument only when
\* the slot is empty; a session is built only into an empty slot or by the
\* reset tool, which empties the slot first.
C18_SingleSession ==
  [][ /\ activeSession' \in 0..Len(sessions')
      /\ \A i, j \in 1..Len(sessions') :
           sessions'[i].sessionId = sessions'[j].sessionId => i = j
      /\ GetOrCreateStep =>
           IF activeSession # NoSession
           THEN /\ last'.session = activeSession
                /\ activeSession' = activeSession
                /\ sessions' = sessions
           ELSE /\ last'.session = Len(sessions) + 1
                /\ activeSession' = Len(sessions) + 1
                /\ sessions'[activeSession'].callCount = 0
      /\ Len(sessions') # Len(sessions) =>
           /\ activeSession = NoSession \/ ResetToolStep
           /\ Len(sessions') = Len(sessions) + 1
           /\ activeSession' = Len(sessions')
           /\ \A i \in 1..Len(sessions) : sessions'[i] = sessions[i]
    ]_vars

\* getOrCreateSession was called with another configuration while the slot
\* held a session that had been called, and returned that session
C18_Witness ==
  /\ last.op = "getOrCreateSession"
  /\ last.session = activeSession
  /\ activeSession # NoSession
  /\ sessions[activeSession].callCount = 1
  /\ sessions[activeSession].workingDirectory = "d1"
  /\ lastSessionConfig.workingDirectory = "d2"
  /\ Len(sessions) = 1

\* ---------------------------------------------------------------------------
\* Properties of the provider loop
\* ---------------------------------------------------------------------------
\* a tool handler is started in this step
HandlerStarts ==
  /\ Len(handlerLog') = Len(handlerLog) + 1
  /\ handlerLog'[Len(handlerLog')].ev = "start"

\* C14: a tool handler is started only when no handler is awaited and no
\* send is in flight, so starts and ends of handlers alternate, each end
\* closing the start before it, also for the calls of one turn; and a send
\* is started only by the one handler that is awaited.
C14_HandlersSequential ==
  [][ /\ HandlerStarts =>
           /\ calling = NoCalling
           /\ sendCtx = NoSend
           /\ handlerLog # <<>> => handlerLog[Len(handlerLog)].ev = "end"
      /\ SendStarts =>
           /\ sendCtx = NoSend
           /\ calling.name = "send_to_claude"
           /\ handlerLog[Len(handlerLog)].ev = "start"
           /\ handlerLog[Len(handlerLog)].id = calling.id
      /\ \A i \in 1..Len(handlerLog') :
           handlerLog'[i].ev = "end" =>
             /\ i > 1
             /\ handlerLog'[i - 1].ev = "start"
             /\ handlerLog'[i - 1].id = handlerLog'[i].id
    ]_vars

\* one turn asked for two sends, and both were served, one after the other
C14_Witness ==
  /\ Len(pendingToolCalls) = 2
  /\ pendingToolCalls[1].name = "send_to_claude"
  /\ pendingToolCalls[2].name = "send_to_claude"
  /\ callIdx = 3
  /\ Len(procs) = 2
  /\ Len(handlerLog) = 4
  /\ handlerLog[3].ev = "start"
  /\ handlerLog[2].ev = "end"

\* the for loop is at a call of a registered tool whose input fails the
\* schema of the tool
AtInvalidCall ==
  /\ AtCall
  /\ CurrentCall.name \in ToolNames
  /\ ~Schema(CurrentCall.name, CurrentCall.input)

\* C19: a call of a registered tool whose input fails the schema changes no
\* ledger, session or process state and starts no handler; its failure is
\* pushed as an error result of that call and the loop goes on to the next
\* call without returning; and every handler that was ever started was given
\* an input that passes the schema.
C19_InvalidInputRejected ==
  [][ /\ AtInvalidCall =>
           /\ UNCHANGED ledgerVars
           /\ UNCHANGED sessionVars
           /\ last' = last
           /\ handlerLog' = handlerLog
           /\ toolResults' = Append(toolResults,
                                    [tool_use_id |-> CurrentCall.id,
                                     is_error |-> TRUE])
           /\ callIdx' = callIdx + 1
           /\ loopPc' = "tools"
           /\ runResult' = runResult
      /\ \A i \in 1..Len(handlerLog') :
           Schema(handlerLog'[i].name, handlerLog'[i].input)
    ]_vars

\* the result turns appended so far
ResultTurns == SelectSeq(messages, LAMBDA m : "results" \in DOMAIN m)

\* a run that was given invalid inputs for both tools ended normally, with
\* the failures reported and nothing touched
C19_Witness ==
  /\ loopPc = "done"
  /\ runResult.success
  /\ Len(ResultTurns) = 1
  /\ Len(ResultTurns[1].results) = 2
  /\ ResultTurns[1].results[1].is_error
  /\ ResultTurns[1].results[2].is_error
  /\ todos = <<>>
  /\ procs = <<>>
  /\ handlerLog = <<>>

\* the number of turns that ended with pending tool calls
ToolTurns == Len(SelectSeq(turns, LAMBDA t : t.calls # <<>>))

IdsOfCalls(cs) == [i \in 1..Len(cs) |-> cs[i].id]

IdsOfResults(rs) == [i \in 1..Len(rs) |-> rs[i].tool_use_id]

\* the conversation is the prompt followed, for each of the k tool turns, by
\* the assistant turn and then its result turn, and k + 1 requests were made
ConversationShape ==
  /\ Len(turns) = ToolTurns + 1
  /\ turns[Len(turns)].calls = <<>>
  /\ requests = ToolTurns + 1
  /\ Len(messages) = 1 + 2 * ToolTurns
  /\ \A j \in 1..ToolTurns :
       /\ messages[2 * j].role = "assistant"
       /\ messages[2 * j].calls = IdsOfCalls(turns[j].calls)
       /\ messages[2 * j + 1].role = "user"
       /\ "results" \in DOMAIN messages[2 * j + 1]

\* the ids of the handlers started, in order
StartedIds ==
  IdsOfCalls(SelectSeq(handlerLog, LAMBDA e : e.ev = "start"))

\* all calls of all turns, in order
AllCalls ==
  LET RECURSIVE Cat(_)
      Cat(j) == IF j = 0 THEN <<>> ELSE Cat(j - 1) \o turns[j].calls
  IN Cat(Len(turns))

\* the texts of all turns that have one, in order
AllTexts ==
  SelectSeq([j \in 1..Len(turns) |-> turns[j].text], LAMBDA t : t # "")

\* C20 as stated: when the loop ends after k tool turns, every tool call of
\* those turns was executed and has its result in the result turn of its
\* assistant turn, k result turns were appended, no further request was
\* made, and the output is the text of the final turn alone.
C20_LoopAsStated ==
  loopPc = "done" =>
    /\ ConversationShape
    /\ \A j \in 1..ToolTurns :
         IdsOfResults(messages[2 * j + 1].results) = IdsOfCalls(turns[j].calls)
    /\ runResult.output = AddText(<<>>, turns[Len(turns)].text)

\* C20, amended: when the loop ends after k tool turns, k result turns were
\* appended, each after its assistant turn, and k + 1 requests were made;
\* the calls executed are those that name a registered tool, each once and
\* in order, with one result each in the result turn of their assistant
\* turn (a call of an unregistered tool is passed over without a result);
\* the handlers started are those of the calls whose input passes the
\* schema; and the output is the text of all k + 1 turns in order, which is
\* the final text alone only when the tool turns carry no text.
C20_LoopAmended ==
  loopPc = "done" =>
    /\ ConversationShape
    /\ runResult.success
    /\ \A j \in 1..ToolTurns :
         IdsOfResults(messages[2 * j + 1].results)
           = IdsOfCalls(SelectSeq(turns[j].calls, LAMBDA c : c.name \in ToolNames))
    /\ StartedIds
         = IdsOfCalls(SelectSeq(AllCalls, LAMBDA c :
             \E i \in 1..Len(handlerLog) :
               /\ handlerLog[i].id = c.id
               /\ Schema(handlerLog[i].name, handlerLog[i].input)))
    /\ \A c \in Range(AllCalls) :
         (c.name \in ToolNames /\ c.id \notin Range(StartedIds)) =>
           \E j \in 1..ToolTurns : \E i \in 1..Len(messages[2 * j + 1].results) :
             /\ messages[2 * j + 1].results[i].tool_use_id = c.id
             /\ messages[2 * j + 1].results[i].is_error
    /\ runResult.output = AllTexts
    /\ (\A j \in 1..ToolTurns : turns[j].text = "") =>
         runResult.output = AddText(<<>>, turns[Len(turns)].text)

\* tool call, tool call, final text: two handlers ran, two result turns
\* were appended, and the output holds the text of a tool turn as well as
\* the final text
C20_Witness ==
  /\ loopPc = "done"
  /\ Len(turns) = 3
  /\ Len(turns[1].calls) = 1
  /\ Len(turns[2].calls) = 1
  /\ turns[1].text = "t"
  /\ turns[3].text = "t"
  /\ Len(StartedIds) = 2
  /\ Len(ResultTurns) = 2
  /\ requests = 3
  /\ runResult.output = <<"t", "t">>
\* ---------------------------------------------------------------------------
\* Properties of a run driven by main
\* ---------------------------------------------------------------------------
\* the catch of the for loop takes a handler that threw
CatchStep == calling # NoCalling /\ Thrown(last) /\ calling' = NoCalling

\* the for loop is left: the results of the turn are appended
PushStep == loopPc = "tools" /\ loopPc' = "request"

\* the calls of the turn being served that name a registered tool
RegisteredCalls == SelectSeq(pendingToolCalls, LAMBDA tc : tc.name \in ToolNames)

\* C21: a tool handler that throws inside the loop does not end the loop.
\* The step that catches the throw appends, for that call, a result marked
\* as an error and moves the for loop to the next call of the turn, with the
\* run neither returned nor failed; and when the for loop is left, every
\* registered call of the turn has its result, in order, in the result turn
\* that is appended, and the loop is at its next completion request.
C21_HandlerThrowContinues ==
  [][/\ CatchStep =>
          /\ loopPc' = "tools"
          /\ runResult' = NoResult
          /\ toolResults' = Append(toolResults,
                                   [tool_use_id |-> calling.id, is_error |-> TRUE])
          /\ pendingToolCalls' = pendingToolCalls
          /\ callIdx' = callIdx + 1
          /\ \A i \in 1..Len(events') : events'[i].type # "error"
     /\ PushStep =>
          /\ messages' = Append(messages, [role |-> "user", results |-> toolResults])
          /\ IdsOfResults(toolResults) = IdsOfCalls(RegisteredCalls)
    ]_vars

\* the name of the call with this id
NameOfCall(id) ==
  LET c == CHOOSE c \in Range(AllCalls) : c.id = id IN c.name

\* a result turn holds the error of a mark_task_complete call that threw,
\* followed by the result of a later call of the same turn, and a further
\* request was made after it
C21_Witness ==
  /\ requests >= 2
  /\ \E m \in 1..Len(messages) :
       /\ "results" \in DOMAIN messages[m]
       /\ \E i, j \in 1..Len(messages[m].results) :
            /\ i < j
            /\ messages[m].results[i].is_error
            /\ NameOfCall(messages[m].results[i].tool_use_id) = "mark_task_complete"
            /\ ~messages[m].results[j].is_error

ErrorEvents == SelectSeq(events, LAMBDA e : e.type = "error")

FinishStep == RunEnded /\ phase' # phase

\* the slot, the ledger and the renderer are as after construction
AllReset ==
  /\ activeSession = NoSession
  /\ todos = <<>>
  /\ nextTodoId = 1
  /\ lastRenderedLineCount = 0

\* the calls whose handlers were started, in order
StartedCalls ==
  LET starts == SelectSeq(handlerLog, LAMBDA e : e.ev = "start") IN
  [i \in 1..Len(starts) |-> [name |-> starts[i].name, input |-> starts[i].input]]

\* the end-to-end run: one task loaded as pending, marked in_progress, then
\* completed, then mark_task_complete, confirmed by the user
EndToEndCalls ==
  <<[name |-> "todo_update", input |-> [id |-> 1, status |-> "in_progress"]],
    [name |-> "todo_update", input |-> [id |-> 1, status |-> "completed"]],
    [name |-> "mark_task_complete", input |-> [summary |-> "s", success |-> TRUE]]>>

EndToEnd ==
  /\ loopPc = "done"
  /\ issued = <<1>>
  /\ StartedCalls = EndToEndCalls
  /\ "outcome" \in DOMAIN last
  /\ last.outcome = "confirmed"

\* C23: once main drives run(), whichever way the run ends (the stream
\* completed, it ended with an error event, or it threw), the one step main
\* can take is the end of its try with the full reset: after it the session
\* slot is empty, the ledger is empty with the next id 1 and the renderer's
\* line count is 0, and it stays so; and when the run was the end-to-end run
\* that step reports overall success.
C23_ScopedCleanup ==
  /\ [][RunEnded => /\ phase' = "done"
                    /\ AllReset'
                    /\ (EndToEnd => reported'.shown /\ reported'.success)]_vars
  /\ [](phase = "done" => AllReset)

\* the end-to-end run was made, reported as a success, and all is reset
C23_Witness ==
  /\ phase = "done"
  /\ StartedCalls = EndToEndCalls
  /\ reported.shown /\ reported.success
  /\ AllReset
  /\ sessions # <<>>

\* C24: every non-zero exit of the process is preceded by the full state
\* reset: when process.exit() was called with a code other than 0, the
\* session slot is empty and the ledger is cleared.
C24_NonZeroExitAfterReset ==
  exitStatus \notin {NotExited, 0} => activeSession = NoSession /\ todos = <<>>

\* the configured provider has no credential, or is not a known provider
ConfigurationError == envConfig.loaded /\ ~FrinkAgent(envConfig)

\* C25: with a configuration error (no credential for the configured
\* provider, or an unknown provider name) no session is ever created: the
\* process exits non-zero first.
C25_ConfigErrorBeforeSession ==
  ConfigurationError => sessions = <<>> /\ phase \in {"start", "exited"}

\* a mark_task_complete handler has run to its end
MarkCompleteCalled ==
  \E i \in 1..Len(handlerLog) :
    handlerLog[i].ev = "end" /\ handlerLog[i].name = "mark_task_complete"

\* every task of a non-empty ledger is completed
LedgerResolved ==
  todos # <<>> /\ \A i \in 1..Len(LedgerView) : LedgerView[i].status = "completed"

\* C26: the loop continues until the model has called the completion tool
\* and the ledger is fully resolved: run() has not ended normally while
\* mark_task_complete was not called or some task is not completed, and once
\* both hold no further completion request is made.
C26_LoopUntilComplete ==
  /\ []((phase = "running" /\ loopPc = "done") =>
          MarkCompleteCalled /\ LedgerResolved)
  /\ [][(MarkCompleteCalled /\ LedgerResolved /\ calling = NoCalling) =>
          requests' = requests]_vars

\* C27: a run makes at most as many model turns as the maximum-iteration
\* setting allows.
C27_BoundedByMaxIterations ==
  envConfig.loaded => requests <= envConfig.maxIterations

\* C28: main reports overall success only when, at the end of the run, the
\* ledger is non-empty and every task in it has status completed.
C28_SuccessOnlyWhenResolved ==
  [][(reported'.success /\ ~reported.success) =>
       /\ RunEnded
       /\ todos # <<>>
       /\ \A i \in 1..Len(LedgerView) : LedgerView[i].status = "completed"]_vars

\* success was reported after a run that completed both tasks of a task file
C28_Witness ==
  /\ phase = "done"
  /\ reported.success
  /\ \A id \in {1, 2} :
       \E i \in 1..Len(handlerLog) :
         /\ handlerLog[i].ev = "end"
         /\ handlerLog[i].name = "todo_update"
         /\ handlerLog[i].input = [id |-> id, status |-> "completed"]

\* ---------------------------------------------------------------------------
\* Properties of the tool registry and of custom tools
\* ---------------------------------------------------------------------------
\* C29: tool names are unique in the registry built for a run, whatever the
\* custom tool declarations: no two tools share a name, and looking up the
\* name of a built-in tool gives the built-in tool.
C29_ToolNamesUnique ==
  last.op = "getAllTools" =>
    /\ \A i, j \in 1..Len(last.tools) :
         i # j => last.tools[i].name # last.tools[j].name
    /\ \A i \in 1..Len(coreTools) : ~last.toolMap[coreTools[i]].custom

\* the value supplied for a parameter, <<>> standing for none
Supplied(args, key) ==
  IF \E i \in 1..Len(args) : args[i].key = key
  THEN <<(CHOOSE i \in 1..Len(args) : args[i].key = key)>>
  ELSE <<>>

RECURSIVE Simultaneous(_, _)
\* every placeholder of the template replaced by the value of its argument,
\* everything else kept
Simultaneous(command, args) ==
  IF command = <<>> THEN <<>>
  ELSE LET tok == Head(command)
           keys == {k \in ParamNames : tok \in {Braces[k], Dollar[k]}}
           key == CHOOSE k \in keys : TRUE IN
       (IF keys # {} /\ Supplied(args, key) # <<>>
        THEN args[Supplied(args, key)[1]].value
        ELSE <<tok>>)
       \o Simultaneous(Tail(command), args)

\* C30: the command a custom tool executes is its template with every
\* {{param}} and ${param} placeholder replaced by the stringified value of
\* the argument named param and nothing else changed, that is the
\* simultaneous substitution of the arguments, in whatever order they are
\* processed.
C30_SubstitutionIsSimultaneous ==
  last.op = "executeCommand" =>
    last.finalCommand = Simultaneous(last.command, last.args)

\* ---------------------------------------------------------------------------
\* Properties of the processes send() spawns
\* ---------------------------------------------------------------------------
\* C33: a remove of a present id deletes exactly the task with that id and
\* reports success; the tasks that remain keep their ids, descriptions,
\* statuses and relative order; a remove of an absent id reports "not found"
\* and leaves the ledger as it was.
C33_RemoveFrame ==
  [][(last' # last /\ last'.op = "todo_remove") =>
       LET index == FindIndex(Ledger, last'.id) IN
       IF index # 0
       THEN /\ last'.success
            /\ last'.removedId = last'.id
            /\ LedgerView[index].id = last'.id
            /\ LedgerView' = SubSeq(LedgerView, 1, index - 1)
                             \o SubSeq(LedgerView, index + 1, Len(LedgerView))
            /\ last'.todos = LedgerView'
       ELSE /\ ~last'.success
            /\ last'.error = NotFound(last'.id)
            /\ LedgerView' = LedgerView
            /\ nextTodoId' = nextTodoId
    ]_vars

C33_Witness ==
  /\ last.op = "todo_remove"
  /\ last.success
  /\ last.id = 1
  /\ LedgerIds = <<2>>

\* C34: todo_add appends the given tasks at the end of the ledger in input
\* order, with consecutive ids none of which is in the ledger, each with the
\* status given or pending when none was given, and every task that was in the
\* ledger keeps its id, description, status and position.
C34_AddFrame ==
  [][(last' # last /\ last'.op = "todo_add") =>
       LET n == Len(LedgerView)
           k == Len(last'.input) IN
       /\ Len(LedgerView') = n + k
       /\ SubSeq(LedgerView', 1, n) = LedgerView
       /\ \A i \in 1..k :
            /\ LedgerView'[n + i].task = last'.input[i].task
            /\ LedgerView'[n + i].status =
                 (IF last'.input[i].status = "in_progress"
                  THEN "in_progress" ELSE "pending")
            /\ LedgerView'[n + i].id \notin Range(LedgerIds)
            /\ i > 1 => LedgerView'[n + i].id = LedgerView'[n + i - 1].id + 1
       /\ last'.added = SubSeq(LedgerView', n + 1, n + k)
    ]_vars

C34_Witness ==
  /\ last.op = "todo_add"
  /\ Len(last.input) = 1
  /\ last.input[1].status = ""
  /\ Len(LedgerIds) = 2
  /\ LedgerView[2].status = "pending"

EventsOfType(type) == {i \in 1..Len(events) : events[i].type = type}

\* C38: the events of a run are well framed: message_start is the first
\* event and the only one of its type; every tool_call_start is followed by a
\* tool_call_end with its id and name, with nothing but tool_call_delta
\* events of that id in between (so before any other tool_call_start);
\* message_end is the last event of a run that succeeded and is not among the
\* events of a run that has an error event.
C38_EventsWellFramed ==
  /\ events # <<>> => EventsOfType("message_start") = {1}
  /\ \A i \in EventsOfType("tool_call_start") :
       \E j \in (i + 1)..Len(events) :
         /\ events[j] = Event("tool_call_end", events[i].id, events[i].name)
         /\ \A k \in (i + 1)..(j - 1) :
              events[k] = Event("tool_call_delta", events[i].id, "")
  /\ EventsOfType("message_end") \subseteq {Len(events)}
  /\ (runResult.returned /\ runResult.success) =>
       EventsOfType("message_end") = {Len(events)}
  /\ EventsOfType("error") # {} => EventsOfType("message_end") = {}

SendsMade == Cardinality({i \in 1..Len(trace) : IsSend(trace[i])})

\* C40: the call count main shows at the end of a run is the number of sends
\* made to the assistant during the run, resets of the assistant session
\* included.
C40_ReportedCallsAreAllSends ==
  (phase = "done" /\ reported.shown) => reported.calls = SendsMade

\* C32: the OpenAI adapter the agent builds from the loaded configuration
\* leaves the temperature out for exactly the models whose name starts with
\* gpt-5, o1, o3 or o4, and when the configuration file sets no output-token
\* ceiling it uses 16384 for those models and 4096 for every other model.
C32_ModelCapability ==
  (last.op = "createProvider" /\ last.provider = "openai") =>
    LET reasoning == \E prefix \in {<<"g", "p", "t", "-", "5">>, <<"o", "1">>,
                                     <<"o", "3">>, <<"o", "4">>} :
                       startsWith(last.model, prefix) IN
    /\ (last.params.temperature = <<>>) <=> reasoning
    /\ "maxTokens" \notin last.file.fields =>
         last.params.maxTokens = (IF reasoning THEN 16384 ELSE 4096)

\* C31: a custom tool returns the output, exit code and success flag that
\* send() resolves with for the same behaviour of the process (the same close
\* code, output and error streams, or the same "error"), and never the
\* timeout result.
C31_CustomToolAsSend ==
  last.op = "executeCommand" =>
    /\ [output |-> last.output, exitCode |-> last.exitCode,
        success |-> last.success]
         = (IF last.outcome.kind = "close"
            THEN sendClose(last.outcome.code, last.outcome.out, last.outcome.err)
            ELSE sendError)
    /\ last.exitCode # 124
    /\ "[TIMEOUT]" \notin Range(last.output)

RunningProcs == {p \in 1..Len(procs) : procs[p].status = "running"}

\* C36: when a send() has resolved, the process it spawned has terminated:
\* while no send is in flight no spawned process is running, so a later
\* send never starts beside a process of an earlier one.
C36_ResolvedMeansTerminated ==
  sendCtx = NoSend => RunningProcs = {}

\* the promise of the send in flight is resolved in this step
ResolveStep == sendCtx # NoSend /\ sendCtx' = NoSend

\* an event of a process arrives whose promise is already settled
LateEventStep ==
  /\ Len(procs') = Len(procs)
  /\ \E p \in 1..Len(procs) : Settled(p) /\ procs'[p] # procs[p]

\* C37: a send() resolves once, with the result of whichever of timeout,
\* close and error happens first: the step that resolves it delivers the
\* timeout result exactly when it is the timer that fired, the timer fires
\* only for a pending send whose process has neither closed nor failed, a
\* process that has closed or failed has no armed timer, and an event that
\* arrives for a settled send changes neither the result delivered nor the
\* session, and resolves nothing.
C37_ResolvesOnce ==
  /\ [](\A p \in 1..Len(procs) :
          procs[p].status \in {"closed", "failed"} => procs[p].timer # "armed")
  /\ [][/\ ResolveStep =>
             /\ IsSendResult(last')
             /\ (last'.exitCode = 124) =
                  (procs'[CurrentProc].timer = "fired"
                   /\ procs[CurrentProc].timer = "armed")
        /\ \A p \in 1..Len(procs) :
             (Len(procs') = Len(procs) /\ procs'[p].timer = "fired"
              /\ procs[p].timer # "fired") =>
                /\ p = CurrentProc
                /\ sendCtx # NoSend
                /\ procs[p].status = "running"
        /\ LateEventStep =>
             /\ last' = last
             /\ sendCtx' = sendCtx
             /\ sessions' = sessions]_vars

\* the process of a send that was resolved by the timeout has closed
\* afterwards, and the result delivered is still the timeout result
C37_Witness ==
  /\ procs # <<>>
  /\ procs[Len(procs)].status = "closed"
  /\ procs[Len(procs)].timer = "fired"
  /\ sendCtx = NoSend
  /\ IsSendResult(last)
  /\ last.exitCode = 124

\* C39: main never reports overall success for a run whose stream ended
\* with an error event.
C39_NoSuccessAfterError ==
  (phase = "done" /\ ErrorEvents # <<>>) => ~reported.success

\* C35: every tool call of an assistant turn gets exactly one tool result
\* with its call id in the result turn appended next, whether or not the
\* tool it names is registered: each result turn of the conversation holds
\* the ids of the calls of the assistant turn before it, in order.
C35_EveryCallHasResult ==
  \A m \in 2..Len(messages) :
    "results" \in DOMAIN messages[m] =>
      IdsOfResults(messages[m].results) = messages[m - 1].calls

====
